---------------------------- MODULE Spec2Model ----------------------------
(***************************************************************************)
(* A model of the four-level GST reconciliation engine                     *)
(* (backend/app/engine): Level 1 invoice matching, Level 2 ITC chain       *)
(* validation, Level 3 circular-trade detection, Level 4 risk propagation, *)
(* the composite risk scorer and the orchestrator.                         *)
(*                                                                         *)
(* Money is modelled in whole rupees, scores in hundredths of a point      *)
(* (the code rounds them to two decimals).                                 *)
(***************************************************************************)
EXTENDS Integers, Sequences, FiniteSets, TLC

VARIABLES
    l1_pc,            \* position of match_invoices: "fetch" | "match" | "missing" | "done"
    gstr1_invoices,   \* the GSTR-1 invoices fetched, in fetch order
    gstr2b_invoices,  \* the GSTR-2B invoices fetched, in fetch order
    l1_i,             \* GSTR-1 invoices processed by the matching loop
    l1_j,             \* GSTR-2B invoices processed by the missing-in-GSTR-1 loop
    results,          \* the MatchResults appended so far
    matched_2b_uids,  \* uids of the GSTR-2B invoices consumed so far
    l2_pc,          \* position of validate_itc_chains: "fetch" | "loop" | "append" | "done"
    l2_n,           \* number of chains returned by _fetch_itc_chains
    l2_i,           \* number of chains validated so far (loop index)
    l2_chain,       \* the chain row being validated (None between iterations)
    l2_result,      \* what _validate_single_chain computed for l2_chain
    l2_emitted,     \* len(mismatches): number of Findings appended so far
    \* Level 3 (Level3CircularTradeDetector.detect_circular_trades)
    l3_pc,          \* position in detect_circular_trades
    graph,          \* the transaction graph built from the store
    l3_examined,    \* number of cycles islice drew from nx.simple_cycles
    cycles,         \* result of _detect_cycles_networkx
    cypher_cycles,  \* result of _detect_cycles_cypher
    all_cycles,     \* result of _merge_cycles
    mismatches,     \* the Findings of Level 3
    \* the Entity Graph Store
    gstin_nodes,    \* the GSTIN nodes: status, compliance and risk_score by gstin
    transacts_with, \* the TRANSACTS_WITH relationships, as <<source, target>>
    gstr1_nodes,    \* the GSTR-1 Invoice nodes: [uid, supplier_gstin]
    matched_with,   \* the MATCHED_WITH relationships: [uid, match_score]
    \* Level 4 (Level4RiskPropagation.propagate_risk)
    l4_pc,          \* position in propagate_risk
    l4_G,           \* the risk graph: nodes, edges, base_risk, mismatch_ratio
    l4_metrics,     \* pagerank, degree_centrality and betweenness of its nodes
    risk_scores,    \* the result of _compute_risk_scores
    l4_result,      \* result["scores"] once propagate_risk has returned
    \* the orchestrator (ReconciliationEngine.run_full_reconciliation)
    run_pc,         \* the step the run is at, "done" or "failed"
    run_in,         \* what the read queries of the run return from the store
    l1_results,     \* l1_results
    l1_mismatches,  \* l1_mismatches
    l2_mismatches,  \* l2_mismatches
    l3_mismatches,  \* l3_mismatches
    all_mismatches, \* all_mismatches
    risk_result,    \* risk_result["scores"]
    run_summary,    \* the ReconciliationSummary returned, None before the return
    run_error,      \* the step whose exception left the run, None if none did
    run_log,        \* history: the steps that have completed, in order
    \* the Scorer (risk_scorer.batch_compute_risk)
    sc_pc,          \* position in batch_compute_risk
    sc_mismatches,  \* its argument; compute_composite_risk writes the scores
    sc_i,           \* Findings scored so far
    sc_sorted,      \* the list it returns
    sc_failed,      \* history: whether the lookup of each Finding scored raised
    \* Level 1 called twice on one store (match_invoices, store_match_results)
    rr_pc,          \* "call" | "match" | "store" | "done"
    rr_fetched,     \* what the two fetches returned, per call of match_invoices
    rr_results,     \* the results of each call of match_invoices
    rr_edges,       \* the MATCHED_WITH relationships after each store_match_results
    \* the query interface (database.execute_query, database.execute_write)
    q_pc,           \* "idle" | "attempt" | "sleep" | "returned" | "raised" | "aborted"
    q_call,         \* the call in progress: the step that issued it and the function
    q_attempts,     \* the outcome of each attempt of the call, "error" or "ok"
    q_slept,        \* the seconds waited after each failed attempt of the call
    q_result,       \* what the call returned, None before it has
    q_log,          \* history: the calls of the run that have ended, and how
    \* the invoice numbers of a pair that is scored (normalize_invoice_number)
    n_pc,           \* "call" | "normalize" | "done"
    n_numbers,      \* the invoice numbers of the two invoices, as written
    n_normalized,   \* inv1 and inv2
    \* Level 2 called for two periods on one store (validate_itc_chains)
    p_pc,           \* "store" | "call" | "done"
    p_store,        \* the GSTR-2B Invoice nodes of the store and what hangs off them
    p_periods,      \* the return_period of each call
    p_chains,       \* what _fetch_itc_chains returned to each call
    p_found         \* the Mismatches each call returned

l2vars == <<l2_pc, l2_n, l2_i, l2_chain, l2_result, l2_emitted>>

l1vars == <<l1_pc, gstr1_invoices, gstr2b_invoices, l1_i, l1_j, results, matched_2b_uids>>

l3vars == <<l3_pc, graph, l3_examined, cycles, cypher_cycles, all_cycles, mismatches>>

storevars == <<gstin_nodes, transacts_with, gstr1_nodes, matched_with>>

l4vars == <<l4_pc, l4_G, l4_metrics, risk_scores, l4_result>>

scvars == <<sc_pc, sc_mismatches, sc_i, sc_sorted, sc_failed>>

runvars ==
    <<run_pc, run_in, l1_results, l1_mismatches, l2_mismatches, l3_mismatches,
      all_mismatches, risk_result, run_summary, run_error, run_log>>

rrvars == <<rr_pc, rr_fetched, rr_results, rr_edges>>

qvars == <<q_pc, q_call, q_attempts, q_slept, q_result, q_log>>

nvars == <<n_pc, n_numbers, n_normalized>>

pvars == <<p_pc, p_store, p_periods, p_chains, p_found>>

vars ==
    <<l1vars, l2vars, l3vars, storevars, scvars, l4vars, runvars, rrvars, qvars, nvars,
      pvars>>

\* what each component leaves alone
notl1 == <<l2vars, l3vars, storevars, scvars, l4vars, runvars, rrvars, qvars, nvars, pvars>>

notl2 == <<l1vars, l3vars, storevars, scvars, l4vars, runvars, rrvars, qvars, nvars, pvars>>

notl3 == <<l1vars, l2vars, storevars, scvars, l4vars, runvars, rrvars, qvars, nvars, pvars>>

notsc ==
    <<l1vars, l2vars, l3vars, l4vars, runvars, rrvars, qvars, nvars, pvars, transacts_with,
      gstr1_nodes, matched_with>>

notl4 == <<l1vars, l2vars, l3vars, scvars, runvars, rrvars, qvars, nvars, pvars>>

notrun == <<l1vars, l2vars, l3vars, l4vars, scvars, rrvars, qvars, nvars, pvars>>

notrr ==
    <<l1vars, l2vars, l3vars, l4vars, scvars, runvars, qvars, nvars, pvars, gstin_nodes,
      transacts_with, gstr1_nodes>>

notq == <<l1vars, l2vars, l3vars, l4vars, scvars, runvars, rrvars, nvars, pvars, storevars>>

notn ==
    <<l1vars, l2vars, l3vars, l4vars, scvars, runvars, rrvars, qvars, pvars, storevars>>

notp ==
    <<l1vars, l2vars, l3vars, l4vars, scvars, runvars, rrvars, qvars, nvars, storevars>>

NULL == "NULL"

\* Optional values that are records in the code: None is the empty tuple,
\* a present value x the one-element tuple <<x>>.
None == <<>>

Some(x) == <<x>>

(***************************************************************************)
(* Bounds of the model.                                                    *)
(***************************************************************************)
MaxChains == 2

MaxGstr1 == 3

MaxGstr2b == 3

\* nodes of the largest complete transaction graph
MaxNodes == 10

\* nodes of the transaction graphs whose edge sets are all enumerated
SmallNodes == 3

\* Findings in a batch handed to the Scorer
MaxBatch == 2

\* invoices of each return in the store Level 1 is run on twice
MaxRerun == 2

\* calls of the query interface followed in one run
MaxCalls == 2

\* spaces written before and after an invoice number
MaxPad == 2

\* GSTR-2B invoices in the store of the two calls of Level 2
MaxStore == 2

(***************************************************************************)
(* Shared helpers (app/utils/helpers.py).                                  *)
(***************************************************************************)
Abs(x) == IF x < 0 THEN -x ELSE x

Max(a, b) == IF a >= b THEN a ELSE b

Min(a, b) == IF a <= b THEN a ELSE b

\* values_match with the default tolerances abs_tol = 1.0, pct_tol = 0.001:
\* |v1-v2|/|v| <= 0.001 is |v1-v2| * 1000 <= |v|.
values_match(v1, v2) ==
    \/ Abs(v1 - v2) <= 1
    \/ v1 # 0 /\ Abs(v1 - v2) * 1000 <= Abs(v1)
    \/ v2 # 0 /\ Abs(v1 - v2) * 1000 <= Abs(v2)

severity_from_amount(amount) ==
    IF amount >= 500000 THEN "CRITICAL"
    ELSE IF amount >= 100000 THEN "HIGH"
    ELSE IF amount >= 10000 THEN "MEDIUM"
    ELSE "LOW"

(***************************************************************************)
(* Invoice numbers are sequences of one-character strings.                 *)
(* normalize_invoice_number (app/utils/gstin.py) and fuzz.ratio work on    *)
(* the characters.                                                         *)
(***************************************************************************)
LowerLetters == <<"a", "b", "c", "d", "e", "f", "g", "h", "i", "j", "k", "l", "m",
                  "n", "o", "p", "q", "r", "s", "t", "u", "v", "w", "x", "y", "z">>

UpperLetters == <<"A", "B", "C", "D", "E", "F", "G", "H", "I", "J", "K", "L", "M",
                  "N", "O", "P", "Q", "R", "S", "T", "U", "V", "W", "X", "Y", "Z">>

Digits == <<"0", "1", "2", "3", "4", "5", "6", "7", "8", "9">>

Range(f) == {f[x] : x \in DOMAIN f}

\* str.upper() on one character
UpperChar(ch) ==
    IF ch \in Range(LowerLetters)
    THEN UpperLetters[CHOOSE k \in 1..26 : LowerLetters[k] = ch]
    ELSE ch

Upper(s) == [k \in 1..Len(s) |-> UpperChar(s[k])]

RECURSIVE LStrip(_, _)
\* s.lstrip(chars)
LStrip(s, chars) ==
    IF s # <<>> /\ Head(s) \in chars THEN LStrip(Tail(s), chars) ELSE s

RECURSIVE RStrip(_, _)
\* s.rstrip(chars)
RStrip(s, chars) ==
    IF s # <<>> /\ s[Len(s)] \in chars THEN RStrip(SubSeq(s, 1, Len(s) - 1), chars) ELSE s

Whitespace == {" "}

\* s.strip()
Strip(s) == RStrip(LStrip(s, Whitespace), Whitespace)

StartsWith(s, prefix) ==
    /\ Len(prefix) <= Len(s)
    /\ SubSeq(s, 1, Len(prefix)) = prefix

InvoicePrefixes ==
    << <<"I", "N", "V", "-">>, <<"I", "N", "V", "/">>,
       <<"B", "I", "L", "L", "-">>, <<"B", "I", "L", "L", "/">>,
       <<"T", "A", "X", "-">>, <<"T", "A", "X", "/">> >>

RECURSIVE RemovePrefixes(_, _)
\* for prefix in [...]: if normalized.startswith(prefix): cut it off
RemovePrefixes(s, k) ==
    IF k > Len(InvoicePrefixes) THEN s
    ELSE IF StartsWith(s, InvoicePrefixes[k])
         THEN RemovePrefixes(SubSeq(s, Len(InvoicePrefixes[k]) + 1, Len(s)), k + 1)
    ELSE RemovePrefixes(s, k + 1)

\* the characters re.sub(r"[^A-Z0-9\-]", "", ...) keeps
KeptChars == Range(UpperLetters) \cup Range(Digits) \cup {"-"}

IsKeptChar(ch) == ch \in KeptChars

normalize_invoice_number(inv_no) ==
    IF inv_no = <<>> THEN <<>>
    ELSE LET stripped == Upper(Strip(inv_no))
             cut      == RemovePrefixes(stripped, 1)
             kept     == SelectSeq(cut, IsKeptChar)
             nozero   == LStrip(kept, {"0"})
         IN  IF nozero = <<>> THEN <<"0">> ELSE nozero

RECURSIVE LcsRow(_, _, _, _)
\* One row of the longest-common-subsequence table: prev is the row of the
\* previous character of s, acc the part of this row filled so far
\* (row[j + 1] is the entry for the first j characters of t).
LcsRow(prev, ch, t, acc) ==
    IF Len(acc) = Len(t) + 1 THEN acc
    ELSE LET j == Len(acc)
             v == IF ch = t[j] THEN prev[j] + 1
                  ELSE Max(prev[j + 1], acc[j])
         IN  LcsRow(prev, ch, t, Append(acc, v))

RECURSIVE LcsRows(_, _, _, _)
LcsRows(s, t, i, prev) ==
    IF i > Len(s) THEN prev
    ELSE LcsRows(s, t, i + 1, LcsRow(prev, s[i], t, <<0>>))

\* number of matched characters of the two strings
LcsLen(s, t) == LcsRows(s, t, 1, [j \in 1..(Len(t) + 1) |-> 0])[Len(t) + 1]

\* Python's round() of the fraction num/den (den > 0, num >= 0) to an
\* integer: to nearest, ties to even.
RoundHalfEven(num, den) ==
    LET q == num \div den
        r == num % den
    IN  IF 2 * r < den THEN q
        ELSE IF 2 * r > den THEN q + 1
        ELSE IF q % 2 = 0 THEN q ELSE q + 1

\* fuzz.ratio(s1, s2) = int(round(100 * 2M / T)), M the matched characters
\* and T the total length; the library returns 0 for an empty argument
fuzz_ratio(s1, s2) ==
    IF Len(s1) = 0 \/ Len(s2) = 0 THEN 0
    ELSE RoundHalfEven(200 * LcsLen(s1, s2), Len(s1) + Len(s2))

(***************************************************************************)
(* Level 2: ITC chain validation (engine/level2_itc_chain.py).             *)
(*                                                                         *)
(* Issue strings are kept as sequences of words, so that the substring     *)
(* tests of the type selection ("ITC overclaim" in str(issues)) are        *)
(* decided on the text and not on a tag.                                   *)
(***************************************************************************)
IssueMissingPR == <<"Missing", "purchase", "register", "entry">>

IssueNoGstr1 == <<"No", "matching", "GSTR-1", "invoice", "found", "from", "supplier">>

IssueValueMismatch(v2b, v1) ==
    <<"Value", "mismatch", ":", "GSTR-2B=", ToString(v2b), ",", "GSTR-1=", ToString(v1)>>

IssueNotFiled == <<"Supplier", "has", "not", "filed", "GSTR-1", "for", "this", "period">>

IssueNotClaimed == <<"ITC", "not", "claimed", "in", "GSTR-3B">>

IssueOverclaim(claimed, eligible) ==
    <<"ITC", "overclaim", ":", "claimed=", ToString(claimed), ",", "eligible=", ToString(eligible)>>

IssueSupplierStatus(st) == <<"Supplier", "GSTIN", "status", "is", st>>

IssueIrnStatus(st) == <<"IRN", "status", "is", st>>

\* needle occurs in text as a contiguous run of words
Contains(text, needle) ==
    \E k \in 0..(Len(text) - Len(needle)) :
        \A j \in 1..Len(needle) : text[k + j] = needle[j]

\* `needle in str(issues)'
InIssues(issues, needle) == \E k \in 1..Len(issues) : Contains(issues[k], needle)

\* Rows that the multi-hop query can return for one GSTR-2B invoice.  Every
\* OPTIONAL MATCH may come back null; a map projection may be empty.
TaxableValues == {1000, 1200}

TaxTriples == {[igst |-> 5000, cgst |-> 0, sgst |-> 0],
               [igst |-> 0, cgst |-> 60000, sgst |-> 60000],
               [igst |-> 600000, cgst |-> 0, sgst |-> 0]}

ItcClaims == {None,
              Some([claimed_amount |-> 1050, eligible_amount |-> 1000]),
              Some([claimed_amount |-> 1051, eligible_amount |-> 1000])}

SupplierStatuses == {NULL, "active", "suspended", "cancelled"}

IrnStatuses == {NULL, "valid", "cancelled", "invalid"}

ChainRows ==
    [ purchase_entry  : BOOLEAN,                     \* pr truthy
      gstr1_invoice   : {None} \cup {Some(r) : r \in [taxable_value : TaxableValues]},
      gstr2b_invoice  : [taxable_value : {1000}, tax : TaxTriples],
      gstr1_return    : BOOLEAN,
      gstr3b_return   : BOOLEAN,
      itc_claim       : ItcClaims,
      supplier_status : SupplierStatuses,
      irn_status      : IrnStatuses ]

\* The row is one the query can produce: itc is the relationship to ret_3b,
\* and the IRN hangs off inv_1, so neither exists without its anchor.
RowPossible(c) ==
    /\ (c.itc_claim # None => c.gstr3b_return)
    /\ (c.irn_status # NULL => c.gstr1_invoice # None)
    /\ (c.gstr1_return => c.gstr1_invoice # None)

PossibleRows == {c \in ChainRows : RowPossible(c)}

Hop1Status(c) == IF c.purchase_entry THEN "valid" ELSE "broken"

Hop2Status(c) ==
    IF c.gstr1_invoice = None THEN "broken"
    ELSE IF ~values_match(c.gstr2b_invoice.taxable_value, c.gstr1_invoice[1].taxable_value)
         THEN "warning"
    ELSE "valid"

Hop3Status(c) == IF c.gstr1_return THEN "valid" ELSE "broken"

Hop4Status(c) ==
    IF ~c.gstr3b_return THEN "broken"
    ELSE IF c.itc_claim # None
            /\ c.itc_claim[1].claimed_amount * 100 > c.itc_claim[1].eligible_amount * 105
         THEN "warning"
    ELSE "valid"

\* break_point after the four hops (0 stands for None)
BreakAfterHop1(c) == IF Hop1Status(c) = "broken" THEN 1 ELSE 0

BreakAfterHop2(c) ==
    IF Hop2Status(c) = "broken" /\ BreakAfterHop1(c) = 0 THEN 2 ELSE BreakAfterHop1(c)

BreakAfterHop3(c) ==
    IF Hop3Status(c) = "broken" /\ BreakAfterHop2(c) = 0 THEN 3 ELSE BreakAfterHop2(c)

BreakAfterHop4(c) ==
    IF Hop4Status(c) = "broken" /\ BreakAfterHop3(c) = 0 THEN 4 ELSE BreakAfterHop3(c)

SupplierFlagged(c) == c.supplier_status \in {"cancelled", "suspended"}

IrnFlagged(c) == c.irn_status \in {"cancelled", "invalid"}

\* break_point = break_point or 2  (under the supplier-status check)
BreakPoint(c) ==
    IF SupplierFlagged(c) /\ BreakAfterHop4(c) = 0 THEN 2 ELSE BreakAfterHop4(c)

\* Issues as a version of the code would build them that forgot to record the
\* value mismatch of hop 2 (the hop is still marked "warning").
IssuesWithoutHop2Warning(c) ==
    (IF Hop1Status(c) = "broken" THEN <<IssueMissingPR>> ELSE <<>>)
    \o (IF Hop2Status(c) = "broken" THEN <<IssueNoGstr1>> ELSE <<>>)
    \o (IF Hop3Status(c) = "broken" /\ BreakAfterHop2(c) = 0 THEN <<IssueNotFiled>> ELSE <<>>)
    \o (IF Hop4Status(c) = "broken" THEN <<IssueNotClaimed>>
        ELSE IF Hop4Status(c) = "warning"
             THEN <<IssueOverclaim(c.itc_claim[1].claimed_amount,
                                   c.itc_claim[1].eligible_amount)>>
        ELSE <<>>)
    \o (IF SupplierFlagged(c) THEN <<IssueSupplierStatus(c.supplier_status)>> ELSE <<>>)
    \o (IF IrnFlagged(c) THEN <<IssueIrnStatus(c.irn_status)>> ELSE <<>>)

\* The issues list, in the order the code appends to it.
Issues(c) ==
    (IF Hop1Status(c) = "broken" THEN <<IssueMissingPR>> ELSE <<>>)
    \o (IF Hop2Status(c) = "broken" THEN <<IssueNoGstr1>>
        ELSE IF Hop2Status(c) = "warning"
             THEN <<IssueValueMismatch(c.gstr2b_invoice.taxable_value,
                                       c.gstr1_invoice[1].taxable_value)>>
        ELSE <<>>)
    \o (IF Hop3Status(c) = "broken" /\ BreakAfterHop2(c) = 0 THEN <<IssueNotFiled>> ELSE <<>>)
    \o (IF Hop4Status(c) = "broken" THEN <<IssueNotClaimed>>
        ELSE IF Hop4Status(c) = "warning"
             THEN <<IssueOverclaim(c.itc_claim[1].claimed_amount,
                                   c.itc_claim[1].eligible_amount)>>
        ELSE <<>>)
    \o (IF SupplierFlagged(c) THEN <<IssueSupplierStatus(c.supplier_status)>> ELSE <<>>)
    \o (IF IrnFlagged(c) THEN <<IssueIrnStatus(c.irn_status)>> ELSE <<>>)

L2MismatchType(c) ==
    IF SupplierFlagged(c) THEN "PHANTOM_INVOICE"
    ELSE IF InIssues(Issues(c), <<"ITC", "overclaim">>) THEN "ITC_OVERCLAIM"
    ELSE IF InIssues(Issues(c), <<"No", "matching", "GSTR-1">>) THEN "MISSING_IN_GSTR1"
    ELSE IF InIssues(Issues(c), <<"GSTR-1", "not", "filed">>) THEN "MISSING_IN_GSTR1"
    ELSE IF IrnFlagged(c) THEN "IRN_INVALID"
    ELSE "VALUE_MISMATCH"

TaxAmount(inv) == inv.tax.igst + inv.tax.cgst + inv.tax.sgst

HopStatuses(c) == <<Hop1Status(c), Hop2Status(c), Hop3Status(c), Hop4Status(c)>>

\* sum(1 for h in hops if h.status == "valid") / len(hops) * 100
ChainCompleteness(hops) ==
    (Cardinality({k \in 1..Len(hops) : hops[k] = "valid"}) * 100) \div Len(hops)

\* _validate_single_chain: emitted = FALSE stands for `return None'.
ValidateSingleChain(c) ==
    [ emitted            |-> Issues(c) # <<>>,
      hops               |-> HopStatuses(c),
      break_point        |-> BreakPoint(c),
      issues             |-> Issues(c),
      chain_completeness |-> ChainCompleteness(HopStatuses(c)),
      mismatch_type      |-> L2MismatchType(c),
      severity           |-> severity_from_amount(TaxAmount(c.gstr2b_invoice)),
      itc_at_risk        |-> TaxAmount(c.gstr2b_invoice),
      confidence         |-> 80 ]

\* chains = self._fetch_itc_chains(gstin, return_period); mismatches = []
L2Fetch ==
    /\ l2_pc = "fetch"
    /\ \E n \in 0..MaxChains : l2_n' = n
    /\ l2_pc' = "loop"
    /\ UNCHANGED <<l2_i, l2_chain, l2_result, l2_emitted>>
    /\ UNCHANGED notl2

\* `for chain in chains: chain_result = self._validate_single_chain(chain)':
\* the row is whatever the store returned for the next GSTR-2B invoice
L2ValidateChain ==
    /\ l2_pc = "loop"
    /\ l2_i < l2_n
    /\ \E c \in PossibleRows :
        /\ l2_chain' = Some(c)
        /\ l2_result' = Some(ValidateSingleChain(c))
    /\ l2_pc' = "append"
    /\ UNCHANGED <<l2_n, l2_i, l2_emitted>>
    /\ UNCHANGED notl2

\* `if chain_result: mismatches.append(chain_result)', and on to the next
\* chain; chain and chain_result are dead until they are assigned again
L2Append ==
    /\ l2_pc = "append"
    /\ l2_emitted' = IF l2_result[1].emitted THEN l2_emitted + 1 ELSE l2_emitted
    /\ l2_i' = l2_i + 1
    /\ l2_chain' = None
    /\ l2_result' = None
    /\ l2_pc' = "loop"
    /\ UNCHANGED l2_n
    /\ UNCHANGED notl2

\* return mismatches
L2Return ==
    /\ l2_pc = "loop"
    /\ l2_i = l2_n
    /\ l2_pc' = "done"
    /\ UNCHANGED <<l2_n, l2_i, l2_chain, l2_result, l2_emitted>>
    /\ UNCHANGED notl2

L2Next == L2Fetch \/ L2ValidateChain \/ L2Append \/ L2Return

(***************************************************************************)
(* Level 1: direct invoice matching (engine/level1_matching.py).           *)
(*                                                                         *)
(* An invoice is a record                                                  *)
(*   [uid, invoice_number, taxable_value, invoice_date, cgst, sgst, igst,  *)
(*    supplier_gstin]                                                      *)
(* with invoice_date = <<first seven characters "YYYY-MM", rest>>.         *)
(* Match scores are in hundredths of a point.                              *)
(***************************************************************************)
FUZZY_MATCH_THRESHOLD == 85

EXACT_MATCH_SCORE == 95

TaxFields == <<"cgst", "sgst", "igst">>

TaxField(inv, tf) ==
    IF tf = "cgst" THEN inv.cgst ELSE IF tf = "sgst" THEN inv.sgst ELSE inv.igst

\* the tax fields that differ, in the order the code appends them to diffs
TaxDiffs(g1, g2) ==
    SelectSeq(TaxFields, LAMBDA tf : ~values_match(TaxField(g1, tf), TaxField(g2, tf)))

\* The score once the number, value, date and tax parts are known: the sum
\* 40*f/100 + 30*(1 - d/m) + date + k*10/3 is formed exactly over the
\* denominator 3m and rounded once, as round(score, 2) does.
\*   number: hundredths of a point; valueM: hundredths times m; date:
\*   hundredths; k: matching tax fields; m = max(v1, 1)
RoundedScore(number, valueM, date, k, m) ==
    RoundHalfEven((number + date) * 3 * m + 3 * valueM + k * 1000 * m, 3 * m)

\* 30 points if the values match, else max(0, 30 * (1 - diff_pct / 100)) with
\* diff_pct = |v1 - v2| / max(v1, 1) * 100; in hundredths, times max(v1, 1)
ValuePart(vmatch, d, m) ==
    IF vmatch THEN 3000 * m
    ELSE IF d < m THEN 3000 * (m - d) ELSE 0

\* 20 points for the same date, 10 for the same month (d1[:7] == d2[:7])
DatePart(d1, d2) ==
    IF d1 = d2 THEN 2000 ELSE IF d1[1] = d2[1] THEN 1000 ELSE 0

\* the parts of _compute_match_score after the invoice-number part
ScoreAfterNumber(g1, g2, same, fuzzy, vmatch, tdiffs) ==
    [score |-> RoundedScore(IF same THEN 4000 ELSE 40 * fuzzy,
                            ValuePart(vmatch, Abs(g1.taxable_value - g2.taxable_value),
                                      Max(g1.taxable_value, 1)),
                            DatePart(g1.invoice_date, g2.invoice_date),
                            Len(TaxFields) - Len(tdiffs),
                            Max(g1.taxable_value, 1)),
     diffs |-> (IF same THEN <<>> ELSE <<"invoice_number">>)
               \o (IF vmatch THEN <<>> ELSE <<"taxable_value">>)
               \o (IF g1.invoice_date = g2.invoice_date THEN <<>> ELSE <<"invoice_date">>)
               \o tdiffs]

\* the invoice-number part: equal after normalisation, or fuzzy at or above
\* the threshold; below it the function returns at once with score 0.0
ScoreOnNumbers(g1, g2, same, fuzzy) ==
    IF ~same /\ fuzzy < FUZZY_MATCH_THRESHOLD
    THEN [score |-> 0, diffs |-> <<"invoice_number">>]
    ELSE ScoreAfterNumber(g1, g2, same, fuzzy,
                          values_match(g1.taxable_value, g2.taxable_value),
                          TaxDiffs(g1, g2))

ScoreNormalized(g1, g2, inv1, inv2) ==
    ScoreOnNumbers(g1, g2, inv1 = inv2, fuzz_ratio(inv1, inv2))

\* _compute_match_score: [score, diffs], diffs being the differing fields
ComputeMatchScore(g1, g2) ==
    ScoreNormalized(g1, g2, normalize_invoice_number(g1.invoice_number),
                            normalize_invoice_number(g2.invoice_number))

InvoiceTax(inv) == inv.igst + inv.cgst + inv.sgst

\* a classification that takes every difference of date for one of period
PartialTypeDateFirst(diff_fields) ==
    IF "taxable_value" \in diff_fields /\ diff_fields \cap {"cgst", "sgst", "igst"} # {}
    THEN "TAX_RATE_MISMATCH"
    ELSE IF "taxable_value" \in diff_fields THEN "VALUE_MISMATCH"
    ELSE IF "invoice_date" \in diff_fields THEN "PERIOD_MISMATCH"
    ELSE "VALUE_MISMATCH"

\* the type of a partial match, from the set of differing fields
PartialMismatchType(diff_fields) ==
    IF "taxable_value" \in diff_fields /\ diff_fields \cap {"cgst", "sgst", "igst"} # {}
    THEN "TAX_RATE_MISMATCH"
    ELSE IF "taxable_value" \in diff_fields THEN "VALUE_MISMATCH"
    ELSE IF "invoice_date" \in diff_fields /\ Cardinality(diff_fields) = 1
         THEN "PERIOD_MISMATCH"
    ELSE "VALUE_MISMATCH"

\* the Finding of a partial match; its amounts are in paise
PartialMismatch(mm_type, tax_diff, sev, supplier) ==
    [mismatch_type  |-> mm_type,
     severity       |-> sev,
     itc_at_risk    |-> 100 * tax_diff,
     interest       |-> RoundHalfEven(tax_diff * 18 * 100, 1200),
     penalty        |-> IF sev \in {"CRITICAL", "HIGH"} THEN 10 * tax_diff ELSE 0,
     confidence     |-> 75,
     supplier_gstin |-> supplier]

\* value_diff, the difference of the taxable values, which the code computes
\* next to tax_diff and does not use
ValueDiff(g1, g2) == Abs(g1.taxable_value - g2.taxable_value)

\* tax_diff, the absolute difference of the tax totals
TaxDiff(g1, g2) == Abs(InvoiceTax(g1) - InvoiceTax(g2))

\* _classify_mismatch
ClassifyMismatch(g1, g2, diffs) ==
    PartialMismatch(PartialMismatchType(Range(diffs)), TaxDiff(g1, g2),
                    severity_from_amount(TaxDiff(g1, g2)), g1.supplier_gstin)

\* the Finding of a missing invoice; its amounts are in paise
MissingMismatch(mm_type, tax_amount, supplier) ==
    [mismatch_type  |-> mm_type,
     severity       |-> severity_from_amount(tax_amount),
     itc_at_risk    |-> 100 * tax_amount,
     interest       |-> RoundHalfEven(tax_amount * 18 * 100, 1200),
     penalty        |-> 25 * tax_amount,
     confidence     |-> 85,
     supplier_gstin |-> supplier]

\* _create_missing_mismatch
CreateMissingMismatch(invoice, direction) ==
    MissingMismatch(IF direction = "MISSING_IN_GSTR2B"
                    THEN "MISSING_IN_GSTR2B" ELSE "MISSING_IN_GSTR1",
                    InvoiceTax(invoice), invoice.supplier_gstin)

\* an index that gives every GSTR-2B invoice as candidate, whatever its supplier
CandidatesOfAnySupplier(gstr2b, supplier) == gstr2b

\* gstr2b_by_supplier.get(supplier, []): the GSTR-2B invoices of the supplier,
\* in the order they were fetched
Candidates(gstr2b, supplier) ==
    SelectSeq(gstr2b, LAMBDA inv : inv.supplier_gstin = supplier)

NoBest == [match |-> None, score |-> 0, diffs |-> <<>>]

\* a scan in which a candidate that scores as well as the best takes its place
BetterOrEqual(best, cand, sd) ==
    IF sd.score >= best.score /\ sd.score > 0
    THEN [match |-> Some(cand), score |-> sd.score, diffs |-> sd.diffs]
    ELSE best

\* `if score > best_score: best_score, best_match, best_diffs = ...'
BetterOf(best, cand, sd) ==
    IF sd.score > best.score
    THEN [match |-> Some(cand), score |-> sd.score, diffs |-> sd.diffs]
    ELSE best

\* one candidate of the scan: skipped if consumed, else scored and compared
ScanCandidate(g1, cand, matched, best) ==
    IF cand.uid \in matched THEN best
    ELSE BetterOf(best, cand, ComputeMatchScore(g1, cand))

RECURSIVE BestCandidate(_, _, _, _, _)
\* the scan `for gstr2b_inv in candidates' from candidate k on
BestCandidate(g1, cands, k, matched, best) ==
    IF k > Len(cands) THEN best
    ELSE BestCandidate(g1, cands, k + 1, matched, ScanCandidate(g1, cands[k], matched, best))

\* ResultOfBest with `best_score > 95' in place of `best_score >= 95'
ResultOfBestAbove95(g1, best) ==
    IF best.match # None /\ best.score > EXACT_MATCH_SCORE * 100
    THEN [match_type |-> "exact_match", match_score |-> best.score,
          gstr1_invoice |-> Some(g1), gstr2b_invoice |-> best.match,
          field_diffs |-> <<>>, mismatch |-> None]
    ELSE IF best.match # None /\ best.score >= FUZZY_MATCH_THRESHOLD * 100
    THEN [match_type |-> "partial_match", match_score |-> best.score,
          gstr1_invoice |-> Some(g1), gstr2b_invoice |-> best.match,
          field_diffs |-> best.diffs,
          mismatch |-> Some(ClassifyMismatch(g1, best.match[1], best.diffs))]
    ELSE [match_type |-> "unmatched", match_score |-> 0,
          gstr1_invoice |-> Some(g1), gstr2b_invoice |-> None,
          field_diffs |-> <<>>,
          mismatch |-> Some(CreateMissingMismatch(g1, "MISSING_IN_GSTR2B"))]

\* the MatchResult for a GSTR-1 invoice, given the outcome of the scan
ResultOfBest(g1, best) ==
    IF best.match # None /\ best.score >= EXACT_MATCH_SCORE * 100
    THEN [match_type |-> "exact_match", match_score |-> best.score,
          gstr1_invoice |-> Some(g1), gstr2b_invoice |-> best.match,
          field_diffs |-> <<>>, mismatch |-> None]
    ELSE IF best.match # None /\ best.score >= FUZZY_MATCH_THRESHOLD * 100
    THEN [match_type |-> "partial_match", match_score |-> best.score,
          gstr1_invoice |-> Some(g1), gstr2b_invoice |-> best.match,
          field_diffs |-> best.diffs,
          mismatch |-> Some(ClassifyMismatch(g1, best.match[1], best.diffs))]
    ELSE [match_type |-> "unmatched", match_score |-> 0,
          gstr1_invoice |-> Some(g1), gstr2b_invoice |-> None,
          field_diffs |-> <<>>,
          mismatch |-> Some(CreateMissingMismatch(g1, "MISSING_IN_GSTR2B"))]

\* the MatchResult appended for one GSTR-1 invoice
MatchOne(g1, gstr2b, matched) ==
    ResultOfBest(g1, BestCandidate(g1, Candidates(gstr2b, g1.supplier_gstin), 1,
                                   matched, NoBest))

\* the MatchResult appended for a GSTR-2B invoice no GSTR-1 invoice consumed
MissingInGstr1(g2) ==
    [match_type |-> "unmatched", match_score |-> 0,
     gstr1_invoice |-> None, gstr2b_invoice |-> Some(g2),
     field_diffs |-> <<>>,
     mismatch |-> Some(CreateMissingMismatch(g2, "MISSING_IN_GSTR1"))]

\* The invoices the two fetches can return.  fetch_gstr1_invoices selects
\* on supplier_gstin = $gstin, so every GSTR-1 invoice is issued by the
\* entity of the run (gstin 1); fetch_gstr2b_invoices selects on
\* recipient_gstin = $gstin and leaves the supplier open.
BaseInvoice ==
    [invoice_number |-> <<"A", "1", "2">>, taxable_value |-> 600,
     invoice_date |-> <<"2025-01", "-10">>,
     cgst |-> 54, sgst |-> 54, igst |-> 0, supplier_gstin |-> 1]

Gstr1Contents ==
    { BaseInvoice,
      [BaseInvoice EXCEPT !.invoice_number = <<" ", "a", "1", "2", " ">>,
                          !.taxable_value = 1000] }

Gstr2bContents ==
    { BaseInvoice,
      [BaseInvoice EXCEPT !.taxable_value = 500],
      [BaseInvoice EXCEPT !.taxable_value = 300],
      [BaseInvoice EXCEPT !.taxable_value = 280],
      [BaseInvoice EXCEPT !.invoice_number = <<"A", "-", "1", "2">>],
      [BaseInvoice EXCEPT !.invoice_date = <<"2025-01", "-11">>],
      [BaseInvoice EXCEPT !.supplier_gstin = 2],
      \* the taxable value a fifth below, with the same and with lower taxes
      [BaseInvoice EXCEPT !.taxable_value = 480],
      [BaseInvoice EXCEPT !.taxable_value = 480, !.cgst = 43, !.sgst = 43] }

\* code-point order of the characters that occur in invoice numbers
CharOrder == <<" ", "-", "/">> \o Digits \o UpperLetters \o LowerLetters

CharRank(ch) == CHOOSE k \in 1..Len(CharOrder) : CharOrder[k] = ch

RECURSIVE StrLeq(_, _)
\* s <= t as strings
StrLeq(s, t) ==
    IF s = <<>> THEN TRUE
    ELSE IF t = <<>> THEN FALSE
    ELSE IF Head(s) # Head(t) THEN CharRank(Head(s)) < CharRank(Head(t))
    ELSE StrLeq(Tail(s), Tail(t))

\* ORDER BY i.invoice_number
OrderedByNumber(list) ==
    \A k \in 1..(Len(list) - 1) : StrLeq(list[k].invoice_number, list[k + 1].invoice_number)

SeqsUpTo(S, n) == UNION {[1..k -> S] : k \in 0..n}

\* the uid of an invoice is the key of its node: distinct for distinct nodes
WithUids(list, base) ==
    [k \in 1..Len(list) |->
        [uid |-> base + k,
         invoice_number |-> list[k].invoice_number,
         taxable_value |-> list[k].taxable_value,
         invoice_date |-> list[k].invoice_date,
         cgst |-> list[k].cgst, sgst |-> list[k].sgst, igst |-> list[k].igst,
         supplier_gstin |-> list[k].supplier_gstin]]

Gstr1Lists == {WithUids(l, 0) : l \in {x \in SeqsUpTo(Gstr1Contents, MaxGstr1) : OrderedByNumber(x)}}

Gstr2bLists == {WithUids(l, 100) : l \in {x \in SeqsUpTo(Gstr2bContents, MaxGstr2b) : OrderedByNumber(x)}}

\* gstr1_invoices = self.fetch_gstr1_invoices(...); gstr2b_invoices = ...;
\* results = []; matched_2b_uids = set()
L1Fetch ==
    /\ l1_pc = "fetch"
    /\ gstr1_invoices' \in Gstr1Lists
    /\ gstr2b_invoices' \in Gstr2bLists
    /\ l1_pc' = "match"
    /\ UNCHANGED <<l1_i, l1_j, results, matched_2b_uids>>
    /\ UNCHANGED notl1

\* a matcher that never records the uid of the GSTR-2B invoice it matched
ConsumedByNothing(r) == {}

\* matched_2b_uids.add(best_match["uid"]) of an exact or partial match
ConsumedBy(r) ==
    IF r.match_type = "unmatched" THEN {} ELSE {r.gstr2b_invoice[1].uid}

\* one iteration of `for gstr1_inv in gstr1_invoices'
L1MatchNext ==
    /\ l1_pc = "match"
    /\ l1_i < Len(gstr1_invoices)
    /\ results' = Append(results, MatchOne(gstr1_invoices[l1_i + 1], gstr2b_invoices,
                                           matched_2b_uids))
    /\ matched_2b_uids' = matched_2b_uids \cup ConsumedBy(results'[Len(results')])
    /\ l1_i' = l1_i + 1
    /\ UNCHANGED <<l1_pc, gstr1_invoices, gstr2b_invoices, l1_j>>
    /\ UNCHANGED notl1

\* the matching loop is over; go on to the loop over gstr2b_invoices
L1MatchDone ==
    /\ l1_pc = "match"
    /\ l1_i = Len(gstr1_invoices)
    /\ l1_pc' = "missing"
    /\ UNCHANGED <<gstr1_invoices, gstr2b_invoices, l1_i, l1_j, results, matched_2b_uids>>
    /\ UNCHANGED notl1

\* one iteration of `for gstr2b_inv in gstr2b_invoices'
L1MissingNext ==
    /\ l1_pc = "missing"
    /\ l1_j < Len(gstr2b_invoices)
    /\ results' = IF gstr2b_invoices[l1_j + 1].uid \notin matched_2b_uids
                  THEN Append(results, MissingInGstr1(gstr2b_invoices[l1_j + 1]))
                  ELSE results
    /\ l1_j' = l1_j + 1
    /\ UNCHANGED <<l1_pc, gstr1_invoices, gstr2b_invoices, l1_i, matched_2b_uids>>
    /\ UNCHANGED notl1

\* return results
L1Return ==
    /\ l1_pc = "missing"
    /\ l1_j = Len(gstr2b_invoices)
    /\ l1_pc' = "done"
    /\ UNCHANGED <<gstr1_invoices, gstr2b_invoices, l1_i, l1_j, results, matched_2b_uids>>
    /\ UNCHANGED notl1

L1Next == L1Fetch \/ L1MatchNext \/ L1MatchDone \/ L1MissingNext \/ L1Return

(***************************************************************************)
(* Level 3: circular trade detection (engine/level3_circular.py).          *)
(* A GSTIN is a number; the order of the numbers is the order of the       *)
(* gstin_number strings.  A graph is [n, edges, profile]: nodes 1..n, the  *)
(* TRANSACTS_WITH edges, and the attributes stored on edges and nodes.     *)
(***************************************************************************)
min_cycle_length == 3

max_cycle_length == 8

\* `max_cycles = 200  # Safety cap'
max_cycles == 200

\* `LIMIT 100' of the two pattern queries
CYPHER_LIMIT == 100

EmptyGraph == [n |-> 0, edges |-> {}, profile |-> "flat"]

AllEdges(n) == {e \in (1..n) \X (1..n) : e[1] # e[2]}

Profiles == {"flat", "rising"}

\* the ring 1 -> 2 -> 3 -> 1 alone, its edges worth 100, 120 and 150
RingGraph == [n |-> 3, edges |-> {<<1, 2>>, <<2, 3>>, <<3, 1>>}, profile |-> "ring"]

\* the ring with the total_value of its first relationship null, and with
\* the total_value of every relationship null
UnvaluedRings ==
    {[n |-> 3, edges |-> {<<1, 2>>, <<2, 3>>, <<3, 1>>}, profile |-> p] :
        p \in {"unvalued", "novalue"}}

\* The stores of the model: every edge set over SmallNodes nodes, the
\* complete graph on up to MaxNodes nodes under both profiles, and the rings.
L3Graphs ==
    {[n |-> SmallNodes, edges |-> E, profile |-> "rising"] : E \in SUBSET AllEdges(SmallNodes)}
    \cup {[n |-> k, edges |-> AllEdges(k), profile |-> p] : k \in 0..MaxNodes, p \in Profiles}
    \cup {RingGraph} \cup UnvaluedRings

\* weight = rec["total_value"] or 0
Weight(G, src, tgt) ==
    IF <<src, tgt>> \notin G.edges THEN 0
    ELSE IF G.profile = "flat" THEN 100
    ELSE IF G.profile = "ring" THEN (IF src = 1 THEN 100 ELSE IF src = 2 THEN 120 ELSE 150)
    ELSE IF G.profile = "unvalued" THEN (IF src = 1 THEN 0 ELSE IF src = 2 THEN 100 ELSE 200)
    ELSE IF G.profile = "novalue" THEN 0
    ELSE 100 * src

\* G.nodes[gstin].get("compliance", 50)
Compliance(G, v) ==
    IF G.profile \in {"flat", "ring", "unvalued", "novalue"} THEN 50
    ELSE IF v % 2 = 1 THEN 30 ELSE 80

\* cycle[k:] + cycle[:k]
Rotate(cycle, k) ==
    [i \in 1..Len(cycle) |-> cycle[((i - 1 + k) % Len(cycle)) + 1]]

\* The k-th node in the order in which the library walks the nodes.
NodeAt(G, k, order) == IF order = "asc" THEN k ELSE G.n + 1 - k

RECURSIVE DfsSucc(_, _, _, _, _, _)
RECURSIVE DfsVisit(_, _, _, _, _, _)
\* nx.simple_cycles under islice: the walk from the path over its successors
\* from the k-th on; acc holds the cycles drawn so far, and the walk is not
\* resumed once islice has drawn max_cycles of them.  bound is length_bound.
\* (a \in {e} names the value of e, so that it is computed once.)
DfsSucc(G, path, k, acc, order, bound) ==
    IF k > G.n \/ Len(acc) >= max_cycles THEN acc
    ELSE CHOOSE r \in {DfsSucc(G, path, k + 1, a, order, bound) :
                        a \in {DfsVisit(G, path, NodeAt(G, k, order), acc, order, bound)}} : TRUE

\* the step of the walk from the end of the path to node w: a cycle is
\* closed at the root of the path; every cycle is found from its first node
\* in the order of the walk
DfsVisit(G, path, w, acc, order, bound) ==
    IF <<path[Len(path)], w>> \notin G.edges THEN acc
    ELSE IF w = path[1] THEN Append(acc, path)
    ELSE IF \/ w \in Range(path)
            \/ (order = "asc" /\ w < path[1])
            \/ (order = "desc" /\ w > path[1])
            \/ Len(path) >= bound
         THEN acc
    ELSE DfsSucc(G, Append(path, w), 1, acc, order, bound)

RECURSIVE DfsRoots(_, _, _, _, _)
\* the walks from each root in turn
DfsRoots(G, k, acc, order, bound) ==
    IF k > G.n \/ Len(acc) >= max_cycles THEN acc
    ELSE CHOOSE r \in {DfsRoots(G, k + 1, a, order, bound) :
                        a \in {DfsSucc(G, <<NodeAt(G, k, order)>>, 1, acc, order, bound)}} : TRUE

\* each cycle of the list, rotated by rot
RotateAll(list, rot) == [i \in 1..Len(list) |-> Rotate(list[i], rot)]

\* islice(nx.simple_cycles(G, length_bound=...), max_cycles): the cycles
\* examined; each is reported in the rotation the library found it in
Examined(G, order, rot, bound) ==
    CHOOSE r \in {RotateAll(drawn, rot) : drawn \in {DfsRoots(G, 1, <<>>, order, bound)}} : TRUE

RECURSIVE KeptIn(_, _, _, _)
\* the elements of list[lo..hi] at the indices K, in the order of the list
KeptIn(list, K, lo, hi) ==
    IF lo > hi THEN <<>>
    ELSE IF lo = hi THEN (IF lo \in K THEN <<list[lo]>> ELSE <<>>)
    ELSE KeptIn(list, K, lo, (lo + hi) \div 2) \o KeptIn(list, K, (lo + hi) \div 2 + 1, hi)

\* the elements of the list at the indices K, in the order of the list
Kept(list, K) == KeptIn(list, K, 1, Len(list))

\* `if len(cycle) >= self.min_cycle_length' where simple_cycles takes
\* length_bound; `if self.min_cycle_length <= len(cycle) <=
\* self.max_cycle_length' in the fallback for a library without it
KeepCycle(cycle, fallback) ==
    /\ Len(cycle) >= min_cycle_length
    /\ fallback => Len(cycle) <= max_cycle_length

\* filtered: the examined cycles that are kept, in order
FilterCycles(list, fallback) ==
    CHOOSE r \in {Kept(list, K) :
                    K \in {{i \in 1..Len(list) : KeepCycle(list[i], fallback)}}} : TRUE

RECURSIVE PatternWalk(_, _, _, _, _, _, _)
RECURSIVE PatternVisit(_, _, _, _, _, _, _)
\* The evaluation of a pattern query (n1)-[:TRANSACTS_WITH]->(n2)-> ... ->(n1)
\* of len nodes with n1 < n2 < ...: the nodes k-th and later are tried as the
\* next node of the partial match; acc holds the rows produced so far and
\* the evaluation stops once it has produced `limit' of them.
PatternWalk(G, path, k, acc, len, order, limit) ==
    IF k > G.n \/ Len(acc) >= limit THEN acc
    ELSE CHOOSE r \in {PatternWalk(G, path, k + 1, a, len, order, limit) :
                        a \in {PatternVisit(G, path, NodeAt(G, k, order), acc, len, order, limit)}} : TRUE

\* node w as the next node of the partial match
PatternVisit(G, path, w, acc, len, order, limit) ==
    IF path # <<>> /\ (w <= path[Len(path)] \/ <<path[Len(path)], w>> \notin G.edges)
    THEN acc
    ELSE IF Len(path) + 1 < len
         THEN PatternWalk(G, Append(path, w), 1, acc, len, order, limit)
    ELSE IF <<w, path[1]>> \in G.edges THEN Append(acc, Append(path, w))
    ELSE acc

\* the rows a pattern query of len nodes with LIMIT n returns
RowsLimit(G, len, order, n) == PatternWalk(G, <<>>, 1, <<>>, len, order, n)

\* a query that ignores its LIMIT
RowsNoLimit(G, len, order, n) == RowsLimit(G, len, order, G.n * G.n * G.n * G.n)

\* execute_query of a pattern query of len nodes with LIMIT n
PatternQuery(G, len, order, n) == RowsLimit(G, len, order, n)

\* a merge that compares the cycles as they were found
NotNormalized(cycle) == cycle

\* min_idx = cycle.index(min(cycle)); tuple(cycle[min_idx:] + cycle[:min_idx])
Normalized(cycle) ==
    Rotate(cycle, (CHOOSE i \in 1..Len(cycle) : \A j \in 1..Len(cycle) : cycle[i] <= cycle[j]) - 1)

\* `normalized' of every cycle of the list
NormalizedAll(list) == [i \in 1..Len(list) |-> Normalized(list[i])]

\* `if normalized not in seen': the cycles no earlier cycle normalizes to
FirstOccurrences(norm) ==
    {i \in 1..Len(norm) : \A j \in 1..(i - 1) : norm[j] # norm[i]}

\* merged, from the normalized cycles
MergeNormalized(norm) ==
    CHOOSE r \in {Kept(norm, K) : K \in {FirstOccurrences(norm)}} : TRUE

\* _merge_cycles
MergeCycles(nx_cycles, cy_cycles) ==
    CHOOSE r \in {MergeNormalized(norm) :
                    norm \in {NormalizedAll(nx_cycles \o cy_cycles)}} : TRUE

RECURSIVE SumSeq(_)
SumSeq(q) == IF q = <<>> THEN 0 ELSE Head(q) + SumSeq(Tail(q))

SetMin(S) == CHOOSE x \in S : \A y \in S : x <= y

MaxOf(S) == CHOOSE x \in S : \A y \in S : y <= x

\* edge_values: the value of the edge from each member to the next
EdgeValues(cycle, G) ==
    [i \in 1..Len(cycle) |-> Weight(G, cycle[i], cycle[(i % Len(cycle)) + 1])]

\* a ratio of the largest value to 1, the smallest value forgotten
RatioToOne(positive) ==
    IF positive = {} THEN <<1, 1>> ELSE <<MaxOf(positive), 1>>

\* inflation_ratio as <<numerator, denominator>>: max_val / max(min_val, 1)
\* over the values above 0, and 1.0 if there is none
InflationRatio(positive) ==
    IF positive = {} THEN <<1, 1>>
    ELSE <<MaxOf(positive), Max(SetMin(positive), 1)>>

\* the participants with compliance < 40
LowCompliance(cycle, G) ==
    Cardinality({i \in 1..Len(cycle) : Compliance(G, cycle[i]) < 40})

\* CycleSeverity with `inflation_ratio >= 1.5' for HIGH
CycleSeverityFrom15(num, den, low, len) ==
    IF num > 2 * den \/ low >= 2 THEN "CRITICAL"
    ELSE IF 2 * num >= 3 * den THEN "HIGH"
    ELSE IF 10 * num > 12 * den \/ len = 3 THEN "MEDIUM"
    ELSE "LOW"

\* the severity of a cycle from its inflation ratio num/den
CycleSeverity(num, den, low, len) ==
    IF num > 2 * den \/ low >= 2 THEN "CRITICAL"
    ELSE IF 2 * num > 3 * den THEN "HIGH"
    ELSE IF 10 * num > 12 * den \/ len = 3 THEN "MEDIUM"
    ELSE "LOW"

\* the Finding built from the parts; amounts in paise, estimated_tax being
\* total_value / len(cycle) * 0.18; confidence = min(95, 50 + inflation_ratio
\* * 15 + low_compliance_count * 10) to the hundredth of a percent
CycleMismatch(cycle, total, ratio, low) ==
    [mismatch_type  |-> "CIRCULAR_TRADE",
     severity       |-> CycleSeverity(ratio[1], ratio[2], low, Len(cycle)),
     itc_at_risk    |-> RoundHalfEven(18 * total, Len(cycle)),
     interest       |-> RoundHalfEven(27 * total, 100 * Len(cycle)),
     penalty        |-> RoundHalfEven(18 * total, Len(cycle)),
     confidence     |-> Min(9500, 5000 + RoundHalfEven(1500 * ratio[1], ratio[2])
                                       + 1000 * low),
     inflation_ratio |-> ratio,
     cycle          |-> cycle,
     hops           |-> Len(cycle)]

\* _analyze_cycle
AnalyzeCycle(cycle, G) ==
    CycleMismatch(cycle, SumSeq(EdgeValues(cycle, G)),
                  InflationRatio({v \in Range(EdgeValues(cycle, G)) : v > 0}),
                  LowCompliance(cycle, G))

\* graph = self._build_transaction_graph()
L3BuildGraph ==
    /\ l3_pc = "build"
    /\ graph' \in L3Graphs
    /\ l3_pc' = "networkx"
    /\ UNCHANGED <<l3_examined, cycles, cypher_cycles, all_cycles, mismatches>>
    /\ UNCHANGED notl3

\* what the library leaves open: the order of the walk, the rotation in
\* which a cycle is reported, and whether simple_cycles takes length_bound
NxBehaviours ==
    {[order |-> "asc", rot |-> 0, fallback |-> FALSE],
     [order |-> "desc", rot |-> 1, fallback |-> FALSE],
     [order |-> "asc", rot |-> 2, fallback |-> TRUE]}

\* the cycles islice draws under behaviour b
ExaminedUnder(G, b) ==
    Examined(G, b.order, b.rot, IF b.fallback THEN G.n ELSE max_cycle_length)

\* cycles = self._detect_cycles_networkx(graph)
L3DetectNetworkx ==
    /\ l3_pc = "networkx"
    /\ \E b \in NxBehaviours :
          \E examined \in {ExaminedUnder(graph, b)} :
             /\ cycles' = FilterCycles(examined, b.fallback)
             /\ l3_examined' = Len(examined)
    /\ l3_pc' = "cypher"
    /\ UNCHANGED <<graph, cypher_cycles, all_cycles, mismatches>>
    /\ UNCHANGED notl3

\* cypher_cycles = self._detect_cycles_cypher()
L3DetectCypher ==
    /\ l3_pc = "cypher"
    /\ \E order \in {"asc", "desc"} :
          cypher_cycles' = PatternQuery(graph, 3, order, CYPHER_LIMIT)
                           \o PatternQuery(graph, 4, order, CYPHER_LIMIT)
    /\ l3_pc' = "merge"
    /\ UNCHANGED <<graph, l3_examined, cycles, all_cycles, mismatches>>
    /\ UNCHANGED notl3

\* all_cycles = self._merge_cycles(cycles, cypher_cycles); mismatches = []
L3Merge ==
    /\ l3_pc = "merge"
    /\ all_cycles' = MergeCycles(cycles, cypher_cycles)
    /\ l3_pc' = "analyze"
    /\ UNCHANGED <<graph, l3_examined, cycles, cypher_cycles, mismatches>>
    /\ UNCHANGED notl3

\* the loop `for cycle in all_cycles', which appends the Finding of each
\* cycle (_analyze_cycle returns one for every cycle)
L3Analyze ==
    /\ l3_pc = "analyze"
    /\ mismatches' = [k \in 1..Len(all_cycles) |-> AnalyzeCycle(all_cycles[k], graph)]
    /\ l3_pc' = "return"
    /\ UNCHANGED <<graph, l3_examined, cycles, cypher_cycles, all_cycles>>
    /\ UNCHANGED notl3

\* return mismatches
L3Return ==
    /\ l3_pc = "return"
    /\ l3_pc' = "done"
    /\ UNCHANGED <<graph, l3_examined, cycles, cypher_cycles, all_cycles, mismatches>>
    /\ UNCHANGED notl3

L3Next ==
    L3BuildGraph \/ L3DetectNetworkx \/ L3DetectCypher \/ L3Merge \/ L3Analyze \/ L3Return

(***************************************************************************)
(* The Scorer (engine/risk_scorer.py, models/mismatch.py).                 *)
(* A Finding, as the Scorer reads it, is [mismatch_type, exposure,         *)
(* confidence, supplier_gstin, composite_risk_score]: exposure is          *)
(* financial_impact.total_exposure in paise, confidence is in hundredths   *)
(* of a percent, supplier_gstin is None or Some(gstin), and scores are in  *)
(* hundredths of a point.  A GSTIN node of the store is [status,           *)
(* compliance, risk_score] with risk_score None until Level 4 writes it.   *)
(***************************************************************************)
MismatchTypes ==
    {"VALUE_MISMATCH", "TAX_RATE_MISMATCH", "MISSING_IN_GSTR2B", "MISSING_IN_GSTR1",
     "DUPLICATE", "ITC_OVERCLAIM", "PERIOD_MISMATCH", "PHANTOM_INVOICE",
     "CIRCULAR_TRADE", "IRN_INVALID", "EWB_MISMATCH"}

PROBABILITY_MAP ==
    [t \in MismatchTypes |->
        CASE t = "VALUE_MISMATCH" -> 70
          [] t = "TAX_RATE_MISMATCH" -> 80
          [] t = "MISSING_IN_GSTR2B" -> 90
          [] t = "MISSING_IN_GSTR1" -> 85
          [] t = "DUPLICATE" -> 75
          [] t = "ITC_OVERCLAIM" -> 85
          [] t = "PERIOD_MISMATCH" -> 40
          [] t = "PHANTOM_INVOICE" -> 95
          [] t = "CIRCULAR_TRADE" -> 80
          [] t = "IRN_INVALID" -> 60
          [] t = "EWB_MISMATCH" -> 50]

\* (threshold in rupees, score), in the order of the table
IMPACT_THRESHOLDS ==
    << <<5000000, 100>>, <<1000000, 85>>, <<500000, 70>>, <<100000, 55>>,
       <<50000, 40>>, <<10000, 25>>, <<0, 10>> >>

\* fi_score: the score of the first threshold the exposure reaches, else 10
FiScore(exposure) ==
    IF \E k \in 1..Len(IMPACT_THRESHOLDS) : exposure >= 100 * IMPACT_THRESHOLDS[k][1]
    THEN IMPACT_THRESHOLDS[
            CHOOSE k \in 1..Len(IMPACT_THRESHOLDS) :
                /\ exposure >= 100 * IMPACT_THRESHOLDS[k][1]
                /\ \A j \in 1..(k - 1) : exposure < 100 * IMPACT_THRESHOLDS[j][1]][2]
    ELSE 10

\* prob_score in ten-thousandths of a point: the table value, scaled by
\* confidence / 100 `if mismatch.root_cause and mismatch.root_cause.confidence'
ProbScore(type, confidence) ==
    IF confidence # 0 THEN PROBABILITY_MAP[type] * confidence
    ELSE PROBABILITY_MAP[type] * 10000

\* a lookup that tests `if risk:' and so takes a stored score of 0 for none
GetVendorRiskIfTruthy(gstin, nodes, failed) ==
    IF gstin = None THEN 5000
    ELSE IF failed THEN 5000
    ELSE IF gstin[1] \notin DOMAIN nodes THEN 5000
    ELSE IF nodes[gstin[1]].risk_score \notin {None, Some(0)} THEN nodes[gstin[1]].risk_score[1]
    ELSE IF nodes[gstin[1]].status = "cancelled" THEN 9000
    ELSE IF nodes[gstin[1]].status = "suspended" THEN 7000
    ELSE 5000

\* _get_vendor_risk, in hundredths of a point; failed: execute_query raised
GetVendorRisk(gstin, nodes, failed) ==
    IF gstin = None THEN 5000
    ELSE IF failed THEN 5000
    ELSE IF gstin[1] \notin DOMAIN nodes THEN 5000
    ELSE IF nodes[gstin[1]].risk_score # None THEN nodes[gstin[1]].risk_score[1]
    ELSE IF nodes[gstin[1]].status = "cancelled" THEN 9000
    ELSE IF nodes[gstin[1]].status = "suspended" THEN 7000
    ELSE 5000

\* CompositeRiskScore(financial_impact_score=..., probability_score=...,
\* vendor_risk_score=...)
CompositeRiskScore(fi, prob, vendor) ==
    [financial_impact_score |-> fi, probability_score |-> prob, vendor_risk_score |-> vendor]

\* a composite that adds the three scores without their weights
CompositeUnweighted(c) ==
    RoundHalfEven(100000 * c.financial_impact_score + 10 * c.probability_score
                  + 1000 * c.vendor_risk_score, 1000)

\* CompositeRiskScore.composite: round(0.4 * fi + 0.3 * prob + 0.3 * vendor, 2)
Composite(c) ==
    RoundHalfEven(40000 * c.financial_impact_score + 3 * c.probability_score
                  + 300 * c.vendor_risk_score, 1000)

\* the CompositeRiskScore that compute_composite_risk builds for a Finding
ScoreOf(mm, nodes, failed) ==
    CompositeRiskScore(FiScore(mm.exposure), ProbScore(mm.mismatch_type, mm.confidence),
                       GetVendorRisk(mm.supplier_gstin, nodes, failed))

RECURSIVE InsertFirst(_, _)
\* m placed before the first element whose score is not above its own
InsertFirst(sorted, m) ==
    IF sorted = <<>> THEN <<m>>
    ELSE IF Head(sorted).composite_risk_score > m.composite_risk_score
         THEN <<Head(sorted)>> \o InsertFirst(Tail(sorted), m)
    ELSE <<m>> \o sorted

RECURSIVE InsertDesc(_, _)
\* m placed after the last element whose score is not below its own
InsertDesc(sorted, m) ==
    IF sorted = <<>> THEN <<m>>
    ELSE IF Head(sorted).composite_risk_score >= m.composite_risk_score
         THEN <<Head(sorted)>> \o InsertDesc(Tail(sorted), m)
    ELSE <<m>> \o sorted

RECURSIVE SortedDesc(_, _)
\* sorted(mismatches, key=lambda m: m.composite_risk_score, reverse=True),
\* which is stable: from the k-th element on, into acc
SortedDesc(list, acc) ==
    IF list = <<>> THEN acc ELSE SortedDesc(Tail(list), InsertDesc(acc, Head(list)))

\* The Findings handed to the Scorer.
ScConfidences == {0, 1, 5000, 7250, 9500, 10000}

ScExposures ==
    {0, 999999, 1000000, 5000000, 10000000, 50000000, 100000000, 500000000, 2000000000}

ScSuppliers == {None} \cup {Some(g) : g \in 1..7}

Finding(type, exposure, confidence, supplier) ==
    [mismatch_type |-> type, exposure |-> exposure, confidence |-> confidence,
     supplier_gstin |-> supplier, composite_risk_score |-> 0, composite |-> None]

ScFindings ==
    {Finding(t, e, c, g) : t \in MismatchTypes, e \in ScExposures,
                           c \in ScConfidences, g \in ScSuppliers}

\* Findings that tie and that do not, for the batches of more than one
ScFewFindings ==
    {Finding("PHANTOM_INVOICE", 500000000, 10000, Some(1)),
     Finding("PERIOD_MISMATCH", 0, 1, Some(2)),
     Finding("VALUE_MISMATCH", 1000000, 7250, Some(3)),
     Finding("VALUE_MISMATCH", 1000000, 7250, Some(6))}

ScBatches == {<<f>> : f \in ScFindings} \cup SeqsUpTo(ScFewFindings, MaxBatch)

\* the GSTIN nodes at the time of the call: scored by Level 4 or not yet,
\* of each status; gstin 7 has no node
ScNodes ==
    <<[status |-> "active", compliance |-> Some(50), risk_score |-> Some(10000)],
      [status |-> "active", compliance |-> Some(80), risk_score |-> Some(0)],
      [status |-> "cancelled", compliance |-> Some(50), risk_score |-> None],
      [status |-> "suspended", compliance |-> Some(50), risk_score |-> None],
      [status |-> "active", compliance |-> Some(50), risk_score |-> None],
      [status |-> "cancelled", compliance |-> Some(50), risk_score |-> Some(3333)]>>

\* batch_compute_risk(mismatches) is called
ScCall ==
    /\ sc_pc = "call"
    /\ sc_mismatches' \in ScBatches
    /\ gstin_nodes' = ScNodes
    /\ sc_pc' = "compute"
    /\ UNCHANGED <<sc_i, sc_sorted, sc_failed>>
    /\ UNCHANGED notsc

\* the Finding with the score of its CompositeRiskScore written to it
\* (`composite' keeps the CompositeRiskScore it was computed from)
Scored(mm, c) ==
    [mm EXCEPT !.composite_risk_score = Composite(c), !.composite = Some(c)]

\* one iteration of `for mm in mismatches: compute_composite_risk(mm)'
ScComputeNext ==
    /\ sc_pc = "compute"
    /\ sc_i < Len(sc_mismatches)
    /\ \E failed \in BOOLEAN :
          /\ sc_mismatches' =
              [sc_mismatches EXCEPT ![sc_i + 1] =
                  Scored(sc_mismatches[sc_i + 1],
                         ScoreOf(sc_mismatches[sc_i + 1], gstin_nodes, failed))]
          /\ sc_failed' = Append(sc_failed, failed)
    /\ sc_i' = sc_i + 1
    /\ UNCHANGED <<sc_pc, gstin_nodes, sc_sorted>>
    /\ UNCHANGED notsc

\* return sorted(mismatches, key=..., reverse=True)
ScReturn ==
    /\ sc_pc = "compute"
    /\ sc_i = Len(sc_mismatches)
    /\ sc_sorted' = SortedDesc(sc_mismatches, <<>>)
    /\ sc_pc' = "done"
    /\ UNCHANGED <<gstin_nodes, sc_mismatches, sc_i, sc_failed>>
    /\ UNCHANGED notsc

ScNext == ScCall \/ ScComputeNext \/ ScReturn

(***************************************************************************)
(* Level 4: risk propagation (engine/level4_risk.py).  Risks and scores    *)
(* are in hundredths of a point where they are rounded, and exact          *)
(* fractions <<numerator, denominator>> before.                            *)
(***************************************************************************)
EmptyRiskGraph == [nodes |-> {}, edges |-> {}, base_risk |-> <<>>, mismatch_ratio |-> <<>>]

\* _base_risk, in points: `compliance or 50' takes 50 for None and for 0
BaseRisk(status, compliance) ==
    IF status = "cancelled" THEN 90
    ELSE IF status = "suspended" THEN 70
    ELSE Max(0, 100 - (IF compliance = None \/ compliance = Some(0) THEN 50 ELSE compliance[1]))

\* a graph that holds every GSTIN node of the store, with or without
\* relationships
EveryNode(edges) == 1..SmallNodes

\* the endpoints of the TRANSACTS_WITH relationships: the nodes of G
EdgeNodes(edges) == {e[1] : e \in edges} \cup {e[2] : e \in edges}

\* the rows of mismatch_cypher for one supplier: one row per GSTR-1 invoice
\* and MATCHED_WITH relationship, and one for an invoice that has none
MatchRows(g, invoices, matched) ==
    {r \in {x \in invoices : x.supplier_gstin = g} \X matched : r[2].uid = r[1].uid}

UnmatchedInvoices(g, invoices, matched) ==
    {i \in invoices : i.supplier_gstin = g /\ \A m \in matched : m.uid # i.uid}

\* mismatch_ratio = (unmatched + partial) / max(total, 1) as a fraction
MismatchRatio(rows, unmatched) ==
    <<Cardinality(unmatched) + Cardinality({r \in rows : r[2].match_score < 9500}),
      Max(Cardinality(rows) + Cardinality(unmatched), 1)>>

\* G.nodes[gstin]["mismatch_ratio"], set for the suppliers of GSTR-1 invoices
\* that are nodes of G; .get("mismatch_ratio", 0) for the others
RatioOf(g, invoices, matched) ==
    IF \E i \in invoices : i.supplier_gstin = g
    THEN MismatchRatio(MatchRows(g, invoices, matched), UnmatchedInvoices(g, invoices, matched))
    ELSE <<0, 1>>

\* _build_risk_graph
BuildRiskGraph(nodes, edges, invoices, matched) ==
    [nodes |-> EdgeNodes(edges),
     edges |-> edges,
     base_risk |-> [g \in EdgeNodes(edges) |-> BaseRisk(nodes[g].status, nodes[g].compliance)],
     mismatch_ratio |-> [g \in EdgeNodes(edges) |-> RatioOf(g, invoices, matched)]]

\* nx.degree_centrality: (in-degree + out-degree) / (n - 1), as a fraction
DegreeCentrality(G, g) ==
    <<Cardinality({e \in G.edges : e[1] = g}) + Cardinality({e \in G.edges : e[2] = g}),
      Max(Cardinality(G.nodes) - 1, 1)>>

\* What nx.pagerank and nx.betweenness_centrality return is left to the
\* library: pagerank gives every node a positive weight, betweenness a value
\* from 0 to 1 (here in hundredths).
PagerankOutcomes(G) ==
    <<[g \in G.nodes |-> 1], [g \in G.nodes |-> IF g = 1 THEN 8 ELSE 1],
      [g \in G.nodes |-> IF g = 1 THEN 1 ELSE 3]>>

BetweennessOutcomes(G) ==
    <<[g \in G.nodes |-> 0], [g \in G.nodes |-> IF g = 1 THEN 100 ELSE 0],
      [g \in G.nodes |-> IF g = 2 THEN 50 ELSE 0]>>

RECURSIVE SumOver(_, _)
\* the sum of f over the set S
SumOver(f, S) ==
    IF S = {} THEN 0
    ELSE f[CHOOSE x \in S : TRUE] + SumOver(f, S \ {CHOOSE x \in S : TRUE})

Predecessors(G, g) == {e[1] : e \in {x \in G.edges : x[2] = g}}

Successors(G, g) == {e[2] : e \in {x \in G.edges : x[1] = g}}

\* avg_neighbor_risk over list(G.predecessors(node)) + list(G.successors(node))
\* as a fraction; 0 without neighbours
AvgNeighborRisk(G, g) ==
    <<SumOver(G.base_risk, Predecessors(G, g)) + SumOver(G.base_risk, Successors(G, g)),
      Max(Cardinality(Predecessors(G, g)) + Cardinality(Successors(G, g)), 1)>>

\* 0.15 * min(pr_score * 2, 100) with pr_score = v / max_pr * 100, in
\* hundredths of a point times max_pr
PagerankTerm(v, max_pr) == IF 2 * v >= max_pr THEN 1500 * max_pr ELSE 3000 * v

\* a score that is not clamped
NotClamped(num, den) == num

\* min(100, max(0, composite)), of the fraction num / den in hundredths
Clamped(num, den) == Min(10000 * den, Max(0, num))

\* the sum 0.30 * base_risk + 0.20 * (mismatch_ratio * 100) + 0.15 *
\* avg_neighbor_risk + 0.15 * min(pr_score * 2, 100) + 0.10 * (btw * 200) +
\* 0.10 * (deg * 100), in hundredths of a point, times the product of the
\* denominators of ratio, nb, deg and max_pr
CompositeSum(base, ratio, nb, pr, max_pr, btw, deg) ==
    (30 * base + 20 * btw) * (ratio[2] * nb[2] * max_pr * deg[2])
    + 2000 * ratio[1] * (nb[2] * max_pr * deg[2])
    + 15 * nb[1] * (ratio[2] * max_pr * deg[2])
    + PagerankTerm(pr, max_pr) * (ratio[2] * nb[2] * deg[2])
    + 1000 * deg[1] * (ratio[2] * nb[2] * max_pr)

\* round(composite, 2) of the clamped sum
RiskScore(sum, den) == RoundHalfEven(Clamped(sum, den), den)

\* the composite of node g before the clamp, as numerator and denominator
NodeSum(G, m, g) ==
    CompositeSum(G.base_risk[g], G.mismatch_ratio[g], AvgNeighborRisk(G, g),
                 m.pagerank[g], MaxOf(Range(m.pagerank)),
                 m.betweenness[g], DegreeCentrality(G, g))

NodeDen(G, m, g) ==
    G.mismatch_ratio[g][2] * AvgNeighborRisk(G, g)[2]
    * MaxOf(Range(m.pagerank)) * DegreeCentrality(G, g)[2]

\* the score of node g in _compute_risk_scores
NodeRiskScore(G, m, g) == RiskScore(NodeSum(G, m, g), NodeDen(G, m, g))

\* _compute_risk_scores
ComputeRiskScores(G, m) == [g \in G.nodes |-> NodeRiskScore(G, m, g)]

\* a write-back that matches every GSTIN node of the store, scored or not
StoreOnEveryNode(nodes, scores) ==
    [g \in DOMAIN nodes |->
        [nodes[g] EXCEPT !.risk_score = IF g \in DOMAIN scores THEN Some(scores[g])
                                        ELSE Some(0)]]

\* a propagate_risk without its write-back
StoreNothing(nodes, scores) == nodes

\* _store_risk_scores: SET g.risk_score = row.risk_score for the rows of the batch
StoreRiskScores(nodes, scores) ==
    [g \in DOMAIN nodes |->
        IF g \in DOMAIN scores THEN [nodes[g] EXCEPT !.risk_score = Some(scores[g])]
        ELSE nodes[g]]

\* The store as propagate_risk finds it: the GSTIN nodes with their status,
\* the compliance rating of their taxpayer and the risk_score an earlier run
\* may have left, the GSTR-1 invoices and their MATCHED_WITH relationships.
L4Profiles == {"mixed", "good", "poor", "unfiled"}

L4Status(p, k) ==
    IF p \in {"mixed", "unfiled"}
    THEN (IF k % 3 = 1 THEN "cancelled" ELSE IF k % 3 = 2 THEN "suspended" ELSE "active")
    ELSE "active"

L4Compliance(p, k) ==
    IF p \in {"mixed", "unfiled"} THEN (IF k % 3 = 0 THEN None ELSE Some(20))
    ELSE IF p = "good" THEN (IF k % 2 = 1 THEN Some(120) ELSE Some(100))
    ELSE (IF k % 2 = 1 THEN Some(1) ELSE Some(0))

\* risk_score is written by Level 4 alone, to the nodes of its graph: a
\* node has one from an earlier run only if it has a relationship
L4Node(p, k, edges) ==
    [status |-> L4Status(p, k), compliance |-> L4Compliance(p, k),
     risk_score |-> IF p = "poor" /\ k \in EdgeNodes(edges) THEN Some(4200) ELSE None]

L4Invoices(p) ==
    IF p = "good" THEN {}
    ELSE {[uid |-> 1, supplier_gstin |-> 1], [uid |-> 2, supplier_gstin |-> 1],
          [uid |-> 3, supplier_gstin |-> 2]}

L4Matched(p) ==
    IF p \in {"mixed", "poor"}
    THEN {[uid |-> 1, uid2 |-> 101, match_score |-> 9000],
          [uid |-> 2, uid2 |-> 102, match_score |-> 10000]}
    ELSE {}

L4Stores ==
    {[nodes |-> [k \in 1..SmallNodes |-> L4Node(p, k, e)], edges |-> e,
      invoices |-> L4Invoices(p), matched |-> L4Matched(p)] :
        p \in L4Profiles, e \in SUBSET AllEdges(SmallNodes)}

\* the outcomes of the centrality calls
CentralityOutcomes(pr, btw) ==
    {[pagerank |-> pr[1], betweenness |-> btw[1]],
     [pagerank |-> pr[2], betweenness |-> btw[2]],
     [pagerank |-> pr[3], betweenness |-> btw[3]],
     [pagerank |-> pr[2], betweenness |-> btw[1]]}

\* G = self._build_risk_graph()
L4BuildGraph ==
    /\ l4_pc = "build"
    /\ \E store \in L4Stores :
        /\ gstin_nodes' = store.nodes
        /\ transacts_with' = store.edges
        /\ gstr1_nodes' = store.invoices
        /\ matched_with' = store.matched
        /\ l4_G' = BuildRiskGraph(store.nodes, store.edges, store.invoices, store.matched)
        /\ l4_pc' = IF EdgeNodes(store.edges) = {} THEN "empty" ELSE "centrality"
    /\ UNCHANGED <<l4_metrics, risk_scores, l4_result>>
    /\ UNCHANGED notl4

\* if G.number_of_nodes() == 0: return, with nothing written
L4ReturnEmpty ==
    /\ l4_pc = "empty"
    /\ l4_result' = Some(<<>>)
    /\ l4_pc' = "done"
    /\ UNCHANGED <<l4_G, l4_metrics, risk_scores>>
    /\ UNCHANGED storevars
    /\ UNCHANGED notl4

\* pagerank, degree_centrality, betweenness
L4Centrality ==
    /\ l4_pc = "centrality"
    /\ \E m \in CentralityOutcomes(PagerankOutcomes(l4_G), BetweennessOutcomes(l4_G)) :
        l4_metrics' = m
    /\ l4_pc' = "scores"
    /\ UNCHANGED <<l4_G, risk_scores, l4_result>>
    /\ UNCHANGED storevars
    /\ UNCHANGED notl4

\* risk_scores = self._compute_risk_scores(...)
L4ComputeRiskScores ==
    /\ l4_pc = "scores"
    /\ risk_scores' = ComputeRiskScores(l4_G, l4_metrics)
    /\ l4_pc' = "store"
    /\ UNCHANGED <<l4_G, l4_metrics, l4_result>>
    /\ UNCHANGED storevars
    /\ UNCHANGED notl4

\* self._store_risk_scores(risk_scores)
L4StoreRiskScores ==
    /\ l4_pc = "store"
    /\ gstin_nodes' = StoreRiskScores(gstin_nodes, risk_scores)
    /\ l4_pc' = "return"
    /\ UNCHANGED <<l4_G, l4_metrics, risk_scores, l4_result>>
    /\ UNCHANGED <<transacts_with, gstr1_nodes, matched_with>>
    /\ UNCHANGED notl4

\* return result
L4Return ==
    /\ l4_pc = "return"
    /\ l4_result' = Some(risk_scores)
    /\ l4_pc' = "done"
    /\ UNCHANGED <<l4_G, l4_metrics, risk_scores>>
    /\ UNCHANGED storevars
    /\ UNCHANGED notl4

L4Next ==
    \/ L4BuildGraph
    \/ L4ReturnEmpty
    \/ L4Centrality
    \/ L4ComputeRiskScores
    \/ L4StoreRiskScores
    \/ L4Return

(***************************************************************************)
(* The orchestrator (engine/reconciliation.py).  One run of                *)
(* run_full_reconciliation for the entity with gstin 1: each step is the   *)
(* whole call of the level, computed by the level's operators above from   *)
(* what the store holds.  A Mismatch is kept as the Scorer and the summary *)
(* read it: amounts in paise, confidence in hundredths of a percent.       *)
(***************************************************************************)
MismatchRecord(type, severity, itc_at_risk, exposure, confidence, supplier) ==
    [mismatch_type |-> type, severity |-> severity, itc_at_risk |-> itc_at_risk,
     exposure |-> exposure, confidence |-> confidence, supplier_gstin |-> supplier,
     composite_risk_score |-> 0, composite |-> None]

\* matched_2b_uids.add(...) and results.append(...) of one iteration
MatchStep(acc, r) ==
    [results |-> Append(acc.results, r), matched |-> acc.matched \cup ConsumedBy(r)]

RECURSIVE MatchLoop(_, _, _, _)
\* the loop `for gstr1_inv in gstr1_invoices' from invoice i on
MatchLoop(gstr1, gstr2b, i, acc) ==
    IF i > Len(gstr1) THEN acc
    ELSE MatchLoop(gstr1, gstr2b, i + 1,
                   MatchStep(acc, MatchOne(gstr1[i], gstr2b, acc.matched)))

MissingResults(list) == [k \in 1..Len(list) |-> MissingInGstr1(list[k])]

\* the loop `for gstr2b_inv in gstr2b_invoices' after the matching loop
WithMissing(acc, gstr2b) ==
    acc.results \o MissingResults(SelectSeq(gstr2b, LAMBDA g : g.uid \notin acc.matched))

\* Level1Matcher.match_invoices
MatchInvoices(gstr1, gstr2b) ==
    WithMissing(MatchLoop(gstr1, gstr2b, 1, [results |-> <<>>, matched |-> {}]), gstr2b)

\* the MATCHED_WITH relationships that store_match_results writes for results
MatchEdges(list) ==
    {[uid |-> r.gstr1_invoice[1].uid, uid2 |-> r.gstr2b_invoice[1].uid,
      match_score |-> r.match_score] :
        r \in {x \in Range(list) : x.match_type # "unmatched" /\ x.gstr2b_invoice # None}}

\* a store_match_results that persists nothing
MergeNothing(old, new) == old

\* MERGE (i1)-[rel:MATCHED_WITH]->(i2) SET rel.match_score = ...
MergeMatches(old, new) ==
    {e \in old : \A n \in new : n.uid # e.uid \/ n.uid2 # e.uid2} \cup new

\* the Mismatch of a Level 1 result
OfLevel1(m) ==
    MismatchRecord(m.mismatch_type, m.severity, m.itc_at_risk,
                   m.itc_at_risk + m.interest + m.penalty, 100 * m.confidence,
                   Some(m.supplier_gstin))

MapLevel1(list) == [k \in 1..Len(list) |-> OfLevel1(list[k].mismatch[1])]

\* l1_mismatches = [r.mismatch for r in l1_results if r.mismatch]
Level1Mismatches(list) == MapLevel1(SelectSeq(list, LAMBDA r : r.mismatch # None))

\* the Mismatch of a broken chain: interest is calculate_interest(tax_amount)
\* = tax * 0.18 * 30 / 365, penalty is tax * 0.1
ChainMismatch(v, tax, supplier) ==
    MismatchRecord(v.mismatch_type, v.severity, 100 * tax,
                   100 * tax + RoundHalfEven(540 * tax, 365) + 10 * tax,
                   100 * v.confidence, Some(supplier))

MapChains(rows) ==
    [k \in 1..Len(rows) |->
        ChainMismatch(ValidateSingleChain(rows[k].chain),
                      TaxAmount(rows[k].chain.gstr2b_invoice), rows[k].supplier_gstin)]

\* Level2ITCChainValidator.validate_itc_chains
ValidateItcChains(rows) ==
    MapChains(SelectSeq(rows, LAMBDA r : ValidateSingleChain(r.chain).emitted))

\* the Mismatch of a cycle, which names no supplier
OfLevel3(m) ==
    MismatchRecord(m.mismatch_type, m.severity, m.itc_at_risk,
                   m.itc_at_risk + m.interest + m.penalty, m.confidence, None)

AnalyzeAll(list, G) == [k \in 1..Len(list) |-> OfLevel3(AnalyzeCycle(list[k], G))]

\* Level3CircularTradeDetector.detect_circular_trades
DetectCircularTrades(G, b, order) ==
    AnalyzeAll(MergeCycles(FilterCycles(ExaminedUnder(G, b), b.fallback),
                           PatternQuery(G, 3, order, CYPHER_LIMIT)
                           \o PatternQuery(G, 4, order, CYPHER_LIMIT)), G)

\* compute_composite_risk for every Mismatch; the lookups in failed raise
ScoreAll(list, nodes, failed) ==
    [k \in 1..Len(list) |-> Scored(list[k], ScoreOf(list[k], nodes, k \in failed))]

\* batch_compute_risk
BatchComputeRisk(list, nodes, failed) == SortedDesc(ScoreAll(list, nodes, failed), <<>>)

\* which of the n lookups of the Scorer raise
FailurePatterns(n) == {S \in {{}, {1}, 1..n} : S \subseteq 1..n}

CountOf(list, type) == Cardinality({k \in 1..Len(list) : list[k].match_type = type})

ByType(list) ==
    [t \in {list[k].mismatch_type : k \in 1..Len(list)} |->
        Cardinality({k \in 1..Len(list) : list[k].mismatch_type = t})]

BySeverity(list) ==
    [t \in {list[k].severity : k \in 1..Len(list)} |->
        Cardinality({k \in 1..Len(list) : list[k].severity = t})]

\* a loop that assigns the amount of each Mismatch instead of adding it
ItcAtRiskOfLast(list) == IF list = <<>> THEN 0 ELSE list[Len(list)].itc_at_risk

TotalItcAtRisk(list) == SumSeq([k \in 1..Len(list) |-> list[k].itc_at_risk])

\* summary = ReconciliationSummary(...)
Summary(l1, list, at_risk, claimed) ==
    [total_invoices |-> Len(l1),
     matched |-> CountOf(l1, "exact_match"),
     partial_matched |-> CountOf(l1, "partial_match"),
     unmatched |-> CountOf(l1, "unmatched"),
     mismatches_by_type |-> ByType(list),
     mismatches_by_severity |-> BySeverity(list),
     total_itc_claimed |-> claimed,
     itc_at_risk |-> at_risk,
     itc_verified |-> Max(0, claimed - at_risk),
     net_exposure |-> at_risk,
     mismatches |-> list]

\* The store at the call.  The entity's GSTR-1 and GSTR-2B invoices:
RunInvoice(inv) ==
    /\ inv.invoice_number = BaseInvoice.invoice_number
    /\ inv.invoice_date = BaseInvoice.invoice_date
    /\ inv.taxable_value \in {480, 500, 600}
    /\ inv.cgst = BaseInvoice.cgst

RunFetches ==
    {[gstr1 |-> g, gstr2b |-> b] :
        g \in {l \in Gstr1Lists : Len(l) <= 1 /\ \A k \in 1..Len(l) : RunInvoice(l[k])},
        b \in {l \in Gstr2bLists : Len(l) <= 1 /\ \A k \in 1..Len(l) : RunInvoice(l[k])}}

\* The chain rows are those of the GSTR-2B invoices the entity received:
\* the ones Level 1 fetches for the period, then one of another period
\* (_fetch_itc_chains does not select on the period).  inv_1 is the GSTR-1
\* invoice of the same supplier and number, supplier_status the status of
\* the supplier's GSTIN node.
Gstr1Twin(inv, gstr1) ==
    {g \in Range(gstr1) : g.supplier_gstin = inv.supplier_gstin
                          /\ g.invoice_number = inv.invoice_number}

ChainRow(inv, twins, status) ==
    [chain |-> [purchase_entry |-> TRUE,
                gstr1_invoice |-> IF twins = {} THEN None
                                  ELSE Some([taxable_value |->
                                                (CHOOSE g \in twins : TRUE).taxable_value]),
                gstr2b_invoice |-> [taxable_value |-> inv.taxable_value,
                                    tax |-> [igst |-> inv.igst, cgst |-> inv.cgst,
                                             sgst |-> inv.sgst]],
                gstr1_return |-> twins # {}, gstr3b_return |-> TRUE,
                itc_claim |-> Some([claimed_amount |-> 1050, eligible_amount |-> 1000]),
                supplier_status |-> status, irn_status |-> NULL],
     supplier_gstin |-> inv.supplier_gstin]

\* the row of an invoice of another period, received from supplier 2
RunRow(purchase_entry, status) ==
    [chain |-> [purchase_entry |-> purchase_entry,
                gstr1_invoice |-> Some([taxable_value |-> 1000]),
                gstr2b_invoice |-> [taxable_value |-> 1000,
                                    tax |-> [igst |-> 5000, cgst |-> 0, sgst |-> 0]],
                gstr1_return |-> TRUE, gstr3b_return |-> TRUE,
                itc_claim |-> Some([claimed_amount |-> 1050, eligible_amount |-> 1000]),
                supplier_status |-> status, irn_status |-> NULL],
     supplier_gstin |-> 2]

PeriodRows(f, nodes) ==
    [k \in 1..Len(f.gstr2b) |->
        ChainRow(f.gstr2b[k], Gstr1Twin(f.gstr2b[k], f.gstr1),
                 nodes[f.gstr2b[k].supplier_gstin].status)]

OtherRows(status) == {<<>>, <<RunRow(TRUE, status)>>, <<RunRow(FALSE, status)>>}

\* the TRANSACTS_WITH relationships: none, one, a ring, all
RunEdges ==
    {{}, {<<1, 2>>}, {<<k, (k % SmallNodes) + 1>> : k \in 1..SmallNodes}, AllEdges(SmallNodes)}

\* values of the relationships and ratings, status of the nodes, and whether
\* an earlier run has left its relationships and risk scores
RunProfiles ==
    {[weights |-> "flat", status |-> "good", earlier |-> FALSE],
     [weights |-> "rising", status |-> "mixed", earlier |-> FALSE],
     [weights |-> "rising", status |-> "mixed", earlier |-> TRUE]}

RunGraph(edges, weights) == [n |-> SmallNodes, edges |-> edges, profile |-> weights]

RunNode(p, k, edges) ==
    [status |-> L4Status(p.status, k),
     compliance |-> Some(Compliance(RunGraph(edges, p.weights), k)),
     risk_score |-> IF p.earlier /\ k \in EdgeNodes(edges) THEN Some(4200) ELSE None]

\* the GSTR-1 Invoice nodes: those of the entity and one of supplier 2
RunGstr1Nodes(gstr1) ==
    {[uid |-> inv.uid, supplier_gstin |-> inv.supplier_gstin] : inv \in Range(gstr1)}
    \cup {[uid |-> 50, supplier_gstin |-> 2]}

\* the relationship an earlier run has left between the invoices fetched
EarlierMatches(p, f) ==
    IF p.earlier /\ f.gstr1 # <<>> /\ f.gstr2b # <<>>
    THEN {[uid |-> f.gstr1[1].uid, uid2 |-> f.gstr2b[1].uid, match_score |-> 8800]}
    ELSE {}

\* run_full_reconciliation(gstin, return_period) is called
RunCall ==
    /\ run_pc = "call"
    /\ \E f \in RunFetches, edges \in RunEdges, p \in RunProfiles :
        /\ gstin_nodes' = [k \in 1..SmallNodes |-> RunNode(p, k, edges)]
        /\ transacts_with' = edges
        /\ gstr1_nodes' = RunGstr1Nodes(f.gstr1)
        /\ matched_with' = EarlierMatches(p, f)
        /\ \E other \in OtherRows(gstin_nodes'[2].status) :
            run_in' = Some([gstr1 |-> f.gstr1, gstr2b |-> f.gstr2b,
                            chains |-> PeriodRows(f, gstin_nodes') \o other,
                            weights |-> p.weights])
    /\ run_pc' = "level1"
    /\ UNCHANGED <<l1_results, l1_mismatches, l2_mismatches, l3_mismatches, all_mismatches,
                   risk_result, run_summary, run_error, run_log>>
    /\ UNCHANGED notrun

\* l1_results = self.level1.match_invoices(gstin, return_period)
RunLevel1 ==
    /\ run_pc = "level1"
    /\ l1_results' = MatchInvoices(run_in[1].gstr1, run_in[1].gstr2b)
    /\ run_log' = Append(run_log, "level1")
    /\ run_pc' = "store_match_results"
    /\ UNCHANGED <<run_in, l1_mismatches, l2_mismatches, l3_mismatches, all_mismatches,
                   risk_result, run_summary, run_error>>
    /\ UNCHANGED storevars
    /\ UNCHANGED notrun

\* self.level1.store_match_results(l1_results); l1_mismatches = ...;
\* all_mismatches.extend(l1_mismatches)
RunStoreMatchResults ==
    /\ run_pc = "store_match_results"
    /\ matched_with' = MergeMatches(matched_with, MatchEdges(l1_results))
    /\ l1_mismatches' = Level1Mismatches(l1_results)
    /\ all_mismatches' = all_mismatches \o l1_mismatches'
    /\ run_log' = Append(run_log, "store_match_results")
    /\ run_pc' = "level2"
    /\ UNCHANGED <<run_in, l1_results, l2_mismatches, l3_mismatches, risk_result,
                   run_summary, run_error>>
    /\ UNCHANGED <<gstin_nodes, transacts_with, gstr1_nodes>>
    /\ UNCHANGED notrun

\* store_match_results raises at the write for result k: the relationships
\* of the results before it have been written
RunStoreMatchResultsRaises ==
    /\ run_pc = "store_match_results"
    /\ \E k \in 1..Len(l1_results) :
        /\ MatchEdges(<<l1_results[k]>>) # {}
        /\ matched_with' = MergeMatches(matched_with, MatchEdges(SubSeq(l1_results, 1, k - 1)))
    /\ run_error' = Some("store_match_results")
    /\ run_pc' = "failed"
    /\ UNCHANGED <<run_in, l1_results, l1_mismatches, l2_mismatches, l3_mismatches,
                   all_mismatches, risk_result, run_summary, run_log>>
    /\ UNCHANGED <<gstin_nodes, transacts_with, gstr1_nodes>>
    /\ UNCHANGED notrun

\* l2_mismatches = self.level2.validate_itc_chains(gstin, return_period);
\* all_mismatches.extend(l2_mismatches)
RunLevel2 ==
    /\ run_pc = "level2"
    /\ l2_mismatches' = ValidateItcChains(run_in[1].chains)
    /\ all_mismatches' = all_mismatches \o l2_mismatches'
    /\ run_log' = Append(run_log, "level2")
    /\ run_pc' = "level3"
    /\ UNCHANGED <<run_in, l1_results, l1_mismatches, l3_mismatches, risk_result,
                   run_summary, run_error>>
    /\ UNCHANGED storevars
    /\ UNCHANGED notrun

\* l3_mismatches = self.level3.detect_circular_trades();
\* all_mismatches.extend(l3_mismatches)
RunLevel3 ==
    /\ run_pc = "level3"
    /\ \E b \in NxBehaviours, order \in {"asc", "desc"} :
        l3_mismatches' = DetectCircularTrades(RunGraph(transacts_with, run_in[1].weights),
                                              b, order)
    /\ all_mismatches' = all_mismatches \o l3_mismatches'
    /\ run_log' = Append(run_log, "level3")
    /\ run_pc' = "level4"
    /\ UNCHANGED <<run_in, l1_results, l1_mismatches, l2_mismatches, risk_result,
                   run_summary, run_error>>
    /\ UNCHANGED storevars
    /\ UNCHANGED notrun

\* risk_result = self.level4.propagate_risk(), which ends with its
\* write-back unless the graph is empty
RunLevel4 ==
    /\ run_pc = "level4"
    /\ \E G \in {BuildRiskGraph(gstin_nodes, transacts_with, gstr1_nodes, matched_with)} :
        IF G.nodes = {}
        THEN /\ risk_result' = Some(<<>>)
             /\ UNCHANGED gstin_nodes
        ELSE \E m \in CentralityOutcomes(PagerankOutcomes(G), BetweennessOutcomes(G)) :
                \E scores \in {ComputeRiskScores(G, m)} :
                    /\ gstin_nodes' = StoreRiskScores(gstin_nodes, scores)
                    /\ risk_result' = Some(scores)
    /\ run_log' = Append(run_log, "level4")
    /\ run_pc' = "score"
    /\ UNCHANGED <<run_in, l1_results, l1_mismatches, l2_mismatches, l3_mismatches,
                   all_mismatches, run_summary, run_error>>
    /\ UNCHANGED <<transacts_with, gstr1_nodes, matched_with>>
    /\ UNCHANGED notrun

\* all_mismatches = batch_compute_risk(all_mismatches)
RunScore ==
    /\ run_pc = "score"
    /\ \E failed \in FailurePatterns(Len(all_mismatches)) :
        all_mismatches' = BatchComputeRisk(all_mismatches, gstin_nodes, failed)
    /\ run_log' = Append(run_log, "score")
    /\ run_pc' = "summary"
    /\ UNCHANGED <<run_in, l1_results, l1_mismatches, l2_mismatches, l3_mismatches,
                   risk_result, run_summary, run_error>>
    /\ UNCHANGED storevars
    /\ UNCHANGED notrun

\* the summary is built from the counts and from _get_total_itc_claimed,
\* and returned
RunSummary ==
    /\ run_pc = "summary"
    /\ \E claimed \in {0, 2000000} :
        run_summary' = Some(Summary(l1_results, all_mismatches,
                                    TotalItcAtRisk(all_mismatches), claimed))
    /\ run_log' = Append(run_log, "summary")
    /\ run_pc' = "done"
    /\ UNCHANGED <<run_in, l1_results, l1_mismatches, l2_mismatches, l3_mismatches,
                   all_mismatches, risk_result, run_error>>
    /\ UNCHANGED storevars
    /\ UNCHANGED notrun

\* The steps whose queries can raise once the retries of execute_query are
\* used up; propagate_risk issues its write last, in one batch.  The Scorer
\* catches what its lookup raises.
RaisingSteps == {"level1", "level2", "level3", "level4", "summary"}

\* a step raises: run_full_reconciliation has no handler, the exception
\* leaves it and nothing is written
RunRaises ==
    /\ run_pc \in RaisingSteps
    /\ run_error' = Some(run_pc)
    /\ run_pc' = "failed"
    /\ UNCHANGED <<run_in, l1_results, l1_mismatches, l2_mismatches, l3_mismatches,
                   all_mismatches, risk_result, run_summary, run_log>>
    /\ UNCHANGED storevars
    /\ UNCHANGED notrun

RunNext ==
    \/ RunCall
    \/ RunLevel1
    \/ RunStoreMatchResults
    \/ RunStoreMatchResultsRaises
    \/ RunLevel2
    \/ RunLevel3
    \/ RunLevel4
    \/ RunScore
    \/ RunSummary
    \/ RunRaises

(***************************************************************************)
(* Level 1 run twice on one store: match_invoices and store_match_results, *)
(* and the same again, nothing else writing to the store meanwhile.        *)
(***************************************************************************)
RerunGstr2b ==
    { BaseInvoice,
      [BaseInvoice EXCEPT !.taxable_value = 500],
      [BaseInvoice EXCEPT !.invoice_number = <<"A", "-", "1", "2">>],
      [BaseInvoice EXCEPT !.invoice_date = <<"2025-01", "-11">>],
      \* the other sets of differing fields that leave a partial match
      [BaseInvoice EXCEPT !.taxable_value = 480],
      [BaseInvoice EXCEPT !.taxable_value = 480, !.cgst = 43, !.sgst = 43],
      [BaseInvoice EXCEPT !.cgst = 43, !.sgst = 43],
      [BaseInvoice EXCEPT !.invoice_date = <<"2025-01", "-11">>, !.cgst = 43] }

\* The Invoice nodes of the store, in the order the first fetches return
\* them.  Two nodes may hold the same invoice under different uids.
RerunStores ==
    {[gstr1 |-> WithUids(g, 0), gstr2b |-> WithUids(b, 100)] :
        g \in {x \in SeqsUpTo(Gstr1Contents, MaxRerun) : OrderedByNumber(x)},
        b \in {x \in SeqsUpTo(RerunGstr2b, MaxRerun) : OrderedByNumber(x)}}

\* The orders in which a fetch can return the nodes of list: ORDER BY
\* i.invoice_number leaves the order of nodes with equal numbers open.
FetchOrders(list) ==
    {q \in {[k \in 1..Len(list) |-> list[p[k]]] : p \in Permutations(1..Len(list))} :
        OrderedByNumber(q)}

\* a matcher that keeps matched_2b_uids from one call to the next
MatchAfter(gstr1, gstr2b, consumed) ==
    WithMissing(MatchLoop(gstr1, gstr2b, 1, [results |-> <<>>, matched |-> consumed]), gstr2b)

\* match_invoices in a process in which earlier calls have consumed the
\* uids in consumed: `results = []; matched_2b_uids = set()' start afresh
MatchCall(gstr1, gstr2b, consumed) == MatchInvoices(gstr1, gstr2b)

\* the uids that the calls so far have put in their matched_2b_uids
ConsumedSoFar(calls) ==
    UNION {UNION {ConsumedBy(calls[c][k]) : k \in 1..Len(calls[c])} : c \in 1..Len(calls)}

\* the first call of match_invoices, on a store without MATCHED_WITH
RerunCall ==
    /\ rr_pc = "call"
    /\ \E f \in RerunStores :
        /\ rr_fetched' = <<f>>
        /\ rr_results' = <<MatchCall(f.gstr1, f.gstr2b, {})>>
    /\ matched_with' = {}
    /\ rr_pc' = "store"
    /\ UNCHANGED rr_edges
    /\ UNCHANGED notrr

\* self.level1.store_match_results(results)
RerunStore ==
    /\ rr_pc = "store"
    /\ matched_with' = MergeMatches(matched_with, MatchEdges(rr_results[Len(rr_results)]))
    /\ rr_edges' = Append(rr_edges, matched_with')
    /\ rr_pc' = IF Len(rr_results) = 1 THEN "match" ELSE "done"
    /\ UNCHANGED <<rr_fetched, rr_results>>
    /\ UNCHANGED notrr

\* the second call of match_invoices, on the same Invoice nodes
RerunMatch ==
    /\ rr_pc = "match"
    /\ \E g \in FetchOrders(rr_fetched[1].gstr1), b \in FetchOrders(rr_fetched[1].gstr2b) :
        /\ rr_fetched' = Append(rr_fetched, [gstr1 |-> g, gstr2b |-> b])
        /\ rr_results' = Append(rr_results, MatchCall(g, b, ConsumedSoFar(rr_results)))
    /\ rr_pc' = "store"
    /\ UNCHANGED <<rr_edges, matched_with>>
    /\ UNCHANGED notrr

RerunNext == RerunCall \/ RerunStore \/ RerunMatch

(***************************************************************************)
(* The query interface (database.py): execute_query and execute_write,     *)
(* both under @retry(stop=stop_after_attempt(3), wait=wait_exponential(    *)
(* multiplier=1, min=2, max=10)), and what the step that called does with  *)
(* the outcome.                                                            *)
(***************************************************************************)
\* stop=stop_after_attempt(3)
stop_after_attempt == 3

\* wait=wait_exponential(multiplier=1, min=2, max=10)
wait_min == 2

wait_max == 10

\* a decorator that stops one attempt later
StopOneLater(n) == n > stop_after_attempt

\* the stop condition of the decorator, after n attempts
StopCondition(n) == n >= stop_after_attempt

RECURSIVE Pow2(_)
Pow2(n) == IF n = 0 THEN 1 ELSE 2 * Pow2(n - 1)

Clamp(x) == IF x < wait_min THEN wait_min ELSE IF x > wait_max THEN wait_max ELSE x

\* the wait after the n-th attempt: multiplier * 2^(n-1) or, in the earlier
\* releases of the library, multiplier * 2^n, held within min and max
WaitExponential(n) == {Clamp(Pow2(n - 1)), Clamp(Pow2(n))}

\* the steps of a run in their order, and the function each calls
QuerySteps ==
    <<"level1", "store_match_results", "level2", "level3", "level4", "score", "summary">>

QueryCalls ==
    {[step |-> QuerySteps[k], fn |-> "execute_query", at |-> k] : k \in 1..Len(QuerySteps)}
    \cup {[step |-> "level4", fn |-> "execute_write", at |-> 5]}

\* _get_vendor_risk wraps its execute_query in try/except Exception and
\* returns 50.0; no other caller, and not run_full_reconciliation, has a handler
Catches(step) == step = "score"

\* records of execute_query, the summary of execute_write
QueryResults(fn) ==
    IF fn = "execute_query" THEN {<<>>, <<"record">>} ELSE {<<"summary">>}

\* a step of the run calls execute_query or execute_write
QueryCall ==
    /\ q_pc = "idle"
    /\ Len(q_log) < MaxCalls
    /\ \E call \in QueryCalls :
        /\ q_log # <<>> => call.at >= q_log[Len(q_log)].call.at
        /\ q_call' = Some(call)
    /\ q_attempts' = <<>>
    /\ q_slept' = <<>>
    /\ q_result' = None
    /\ q_pc' = "attempt"
    /\ UNCHANGED q_log
    /\ UNCHANGED notq

\* an attempt runs the body to its return: the call returns that result
QueryAttemptSucceeds ==
    /\ q_pc = "attempt"
    /\ q_attempts' = Append(q_attempts, "ok")
    /\ \E r \in QueryResults(q_call[1].fn) : q_result' = Some(r)
    /\ q_pc' = "returned"
    /\ UNCHANGED <<q_call, q_slept, q_log>>
    /\ UNCHANGED notq

\* an attempt raises: RetryError leaves the call if the stop condition
\* holds, else the wait before the next attempt begins
QueryAttemptFails ==
    /\ q_pc = "attempt"
    /\ q_attempts' = Append(q_attempts, "error")
    /\ IF StopCondition(Len(q_attempts'))
       THEN /\ q_pc' = "raised"
            /\ UNCHANGED q_slept
       ELSE /\ q_pc' = "sleep"
            /\ \E w \in WaitExponential(Len(q_attempts')) : q_slept' = Append(q_slept, w)
    /\ UNCHANGED <<q_call, q_result, q_log>>
    /\ UNCHANGED notq

\* the wait is over: the next attempt
QueryRetry ==
    /\ q_pc = "sleep"
    /\ q_pc' = "attempt"
    /\ UNCHANGED <<q_call, q_attempts, q_slept, q_result, q_log>>
    /\ UNCHANGED notq

Ended(how) == [call |-> q_call[1], attempts |-> q_attempts, slept |-> q_slept, end |-> how]

\* the caller has the result and goes on
QueryReturns ==
    /\ q_pc = "returned"
    /\ q_log' = Append(q_log, Ended("result"))
    /\ q_pc' = "idle"
    /\ UNCHANGED <<q_call, q_attempts, q_slept, q_result>>
    /\ UNCHANGED notq

\* the error reaches _get_vendor_risk, which returns 50.0: the run goes on
QueryCallerCatches ==
    /\ q_pc = "raised"
    /\ Catches(q_call[1].step)
    /\ q_log' = Append(q_log, Ended("fallback"))
    /\ q_pc' = "idle"
    /\ UNCHANGED <<q_call, q_attempts, q_slept, q_result>>
    /\ UNCHANGED notq

\* the error leaves the level and run_full_reconciliation
QueryCallerAborts ==
    /\ q_pc = "raised"
    /\ ~Catches(q_call[1].step)
    /\ q_log' = Append(q_log, Ended("abort"))
    /\ q_pc' = "aborted"
    /\ UNCHANGED <<q_call, q_attempts, q_slept, q_result>>
    /\ UNCHANGED notq

QueryNext ==
    \/ QueryCall
    \/ QueryAttemptSucceeds
    \/ QueryAttemptFails
    \/ QueryRetry
    \/ QueryReturns
    \/ QueryCallerCatches
    \/ QueryCallerAborts

(***************************************************************************)
(* The invoice numbers of a pair, normalized for the comparison            *)
(* (utils/gstin.py, Level1Matcher._compute_match_score).  The two numbers  *)
(* are one number written twice: in upper or lower case, with "/", "-" or  *)
(* a space between its parts, with spaces around it.                       *)
(***************************************************************************)
LowerChar(ch) ==
    IF ch \in Range(UpperLetters)
    THEN LowerLetters[CHOOSE k \in 1..26 : UpperLetters[k] = ch]
    ELSE ch

Lower(s) == [k \in 1..Len(s) |-> LowerChar(s[k])]

Pad(n) == [k \in 1..n |-> " "]

Separators == {"/", "-", " "}

\* the parts of a number: letters, then one or two groups of digits
NumberParts ==
    {<< <<"I", "N", "V">>, <<"2", "0", "2", "5">>, <<"0", "0", "1">> >>,
     << <<"I", "N", "V">>, <<"0", "0", "1">> >>,
     << <<"B", "I", "L", "L">>, <<"2", "0", "2", "5">>, <<"0", "0", "1">> >>,
     << <<"A", "B">>, <<"2", "0", "2", "5">>, <<"0", "0", "1">> >>,
     << <<"A", "B">>, <<"7">> >>}

RECURSIVE Joined(_, _)
Joined(parts, sep) ==
    IF Len(parts) = 1 THEN parts[1]
    ELSE parts[1] \o <<sep>> \o Joined(Tail(parts), sep)

Written(parts, sep, lower, pad) ==
    Pad(pad) \o (IF lower THEN Lower(Joined(parts, sep)) ELSE Joined(parts, sep)) \o Pad(pad)

WaysWritten(parts) ==
    {Written(parts, sep, lower, pad) : sep \in Separators, lower \in BOOLEAN, pad \in 0..MaxPad}

\* _compute_match_score is called on a pair of invoices
NormalizeCall ==
    /\ n_pc = "call"
    /\ \E parts \in NumberParts :
        \E a \in WaysWritten(parts), b \in WaysWritten(parts) : n_numbers' = <<a, b>>
    /\ n_pc' = "normalize"
    /\ UNCHANGED n_normalized
    /\ UNCHANGED notn

\* inv1 = normalize_invoice_number(...); inv2 = normalize_invoice_number(...)
NormalizeBoth ==
    /\ n_pc = "normalize"
    /\ n_normalized' = <<normalize_invoice_number(n_numbers[1]),
                         normalize_invoice_number(n_numbers[2])>>
    /\ n_pc' = "done"
    /\ UNCHANGED n_numbers
    /\ UNCHANGED notn

NormalizeNext == NormalizeCall \/ NormalizeBoth

(***************************************************************************)
(* Level 2 called for two return periods on one store                      *)
(* (engine/level2_itc_chain.py).  A GSTR-2B Invoice node of the store is   *)
(* [uid, recipient_gstin, return_period, chain]: chain is what the         *)
(* OPTIONAL MATCHes of the query find around the node.                     *)
(***************************************************************************)
ReturnPeriods == {"012025", "022025"}

\* a complete chain, one without purchase entry, one of a cancelled
\* supplier with a tax of 6000.00
PeriodChains ==
    {c \in PossibleRows :
        /\ c.gstr1_invoice = Some([taxable_value |-> 1000])
        /\ c.gstr1_return /\ c.gstr3b_return
        /\ c.itc_claim = Some([claimed_amount |-> 1050, eligible_amount |-> 1000])
        /\ c.irn_status = "valid"
        /\ \/ c.supplier_status = "active" /\ c.gstr2b_invoice.tax.igst = 5000
           \/ /\ c.supplier_status = "cancelled" /\ c.purchase_entry
              /\ c.gstr2b_invoice.tax.igst = 600000}

Gstr2bNodes ==
    [recipient_gstin : {1, 2}, return_period : ReturnPeriods, chain : PeriodChains]

PeriodStores ==
    {[k \in 1..Len(l) |->
        [uid |-> k, recipient_gstin |-> l[k].recipient_gstin,
         return_period |-> l[k].return_period, chain |-> l[k].chain]] :
     l \in SeqsUpTo(Gstr2bNodes, MaxStore)}

\* a query that selects the invoices of the period as well
FetchChainsOfPeriod(store, gstin, return_period) ==
    SelectSeq(store, LAMBDA inv : inv.recipient_gstin = gstin
                                  /\ inv.return_period = return_period)

\* _fetch_itc_chains(gstin, return_period): the query is run with
\* {"gstin": gstin}; month and year of return_period are computed and not
\* used
FetchItcChains(store, gstin, return_period) ==
    SelectSeq(store, LAMBDA inv : inv.recipient_gstin = gstin)

\* the query has no ORDER BY: its rows come in any order
RowOrders(rows) == {q \in [1..Len(rows) -> Range(rows)] : Range(q) = Range(rows)}

\* the rows _validate_single_chain returns a Mismatch for
BrokenChains(rows) == SelectSeq(rows, LAMBDA r : ValidateSingleChain(r.chain).emitted)

\* validate_itc_chains: the Mismatch of every such row, in the order of
\* the rows
ChainFindings(rows) ==
    [k \in 1..Len(BrokenChains(rows)) |->
        [uid |-> BrokenChains(rows)[k].uid,
         mismatch_type |-> ValidateSingleChain(BrokenChains(rows)[k].chain).mismatch_type,
         severity |-> ValidateSingleChain(BrokenChains(rows)[k].chain).severity,
         break_point |-> ValidateSingleChain(BrokenChains(rows)[k].chain).break_point]]

\* the store the calls are made on
PeriodsStore ==
    /\ p_pc = "store"
    /\ p_store' \in PeriodStores
    /\ p_pc' = "call"
    /\ UNCHANGED <<p_periods, p_chains, p_found>>
    /\ UNCHANGED notp

\* validate_itc_chains(gstin, return_period) for entity 1, from the fetch
\* to the return
PeriodsCall ==
    /\ p_pc = "call"
    /\ \E return_period \in ReturnPeriods :
        /\ p_periods' = Append(p_periods, return_period)
        /\ \E chains \in RowOrders(FetchItcChains(p_store, 1, return_period)) :
            /\ p_chains' = Append(p_chains, chains)
            /\ p_found' = Append(p_found, ChainFindings(chains))
    /\ p_pc' = IF Len(p_periods) = 1 THEN "done" ELSE "call"
    /\ UNCHANGED p_store
    /\ UNCHANGED notp

PeriodsNext == PeriodsStore \/ PeriodsCall

(***************************************************************************)
(* Specifications: one per component and one for the run of the            *)
(* orchestrator, the others idle.                                          *)
(***************************************************************************)
\* Every component before its first step.
Init ==
    /\ l1_pc = "fetch"
    /\ gstr1_invoices = <<>>
    /\ gstr2b_invoices = <<>>
    /\ l1_i = 0
    /\ l1_j = 0
    /\ results = <<>>
    /\ matched_2b_uids = {}
    /\ l2_pc = "fetch"
    /\ l2_n = 0
    /\ l2_i = 0
    /\ l2_chain = None
    /\ l2_result = None
    /\ l2_emitted = 0
    /\ p_pc = "store"
    /\ p_store = <<>>
    /\ p_periods = <<>>
    /\ p_chains = <<>>
    /\ p_found = <<>>
    /\ l3_pc = "build"
    /\ graph = EmptyGraph
    /\ l3_examined = 0
    /\ cycles = <<>>
    /\ cypher_cycles = <<>>
    /\ all_cycles = <<>>
    /\ mismatches = <<>>
    /\ gstin_nodes = <<>>
    /\ transacts_with = {}
    /\ gstr1_nodes = {}
    /\ matched_with = {}
    /\ l4_pc = "build"
    /\ l4_G = EmptyRiskGraph
    /\ l4_metrics = None
    /\ risk_scores = <<>>
    /\ l4_result = None
    /\ sc_pc = "call"
    /\ sc_mismatches = <<>>
    /\ sc_i = 0
    /\ sc_sorted = <<>>
    /\ sc_failed = <<>>
    /\ run_pc = "call"
    /\ run_in = None
    /\ l1_results = <<>>
    /\ l1_mismatches = <<>>
    /\ l2_mismatches = <<>>
    /\ l3_mismatches = <<>>
    /\ all_mismatches = <<>>
    /\ risk_result = None
    /\ run_summary = None
    /\ run_error = None
    /\ run_log = <<>>
    /\ rr_pc = "call"
    /\ rr_fetched = <<>>
    /\ rr_results = <<>>
    /\ rr_edges = <<>>
    /\ q_pc = "idle"
    /\ q_call = None
    /\ q_attempts = <<>>
    /\ q_slept = <<>>
    /\ q_result = None
    /\ q_log = <<>>
    /\ n_pc = "call"
    /\ n_numbers = <<>>
    /\ n_normalized = <<>>

SpecL1 == Init /\ [][L1Next]_vars

SpecL2 == Init /\ [][L2Next]_vars

\* detect_circular_trades runs to its return without waiting for anything
SpecL3 == Init /\ [][L3Next]_vars /\ WF_vars(L3Next)

SpecScorer == Init /\ [][ScNext]_vars

SpecL4 == Init /\ [][L4Next]_vars

SpecRun == Init /\ [][RunNext]_vars

SpecRerun == Init /\ [][RerunNext]_vars

SpecQuery == Init /\ [][QueryNext]_vars

SpecNormalize == Init /\ [][NormalizeNext]_vars

SpecPeriods == Init /\ [][PeriodsNext]_vars

(***************************************************************************)
(* Level 1 properties.                                                     *)
(***************************************************************************)
SetMax(S) == CHOOSE x \in S : \A y \in S : y <= x

\* the GSTR-2B uids consumed by the results of the GSTR-1 invoices before k
ConsumedBefore(k) ==
    {results[j].gstr2b_invoice[1].uid :
        j \in {i \in 1..(k - 1) : results[i].gstr2b_invoice # None}}

\* the unconsumed candidates of the k-th GSTR-1 invoice
Unconsumed(k) ==
    {c \in Range(gstr2b_invoices) :
        /\ c.supplier_gstin = gstr1_invoices[k].supplier_gstin
        /\ c.uid \notin ConsumedBefore(k)}

\* the scores of the unconsumed candidates of the k-th GSTR-1 invoice, in
\* hundredths of a point
UnconsumedScores(k) ==
    {ComputeMatchScore(gstr1_invoices[k], c).score : c \in Unconsumed(k)}

IsMissingFinding(r, type) ==
    /\ r.match_type = "unmatched"
    /\ r.mismatch # None
    /\ r.mismatch[1].mismatch_type = type

\* what C3 requires of the result r of an invoice whose best candidate scores best
ClassifiedByBest(r, best) ==
    IF best >= 9500 THEN r.match_type = "exact_match" /\ r.mismatch = None
    ELSE IF best >= 100 * FUZZY_MATCH_THRESHOLD
         THEN r.match_type = "partial_match" /\ r.mismatch # None
    ELSE IsMissingFinding(r, "MISSING_IN_GSTR2B")

ClassifiedByScores(r, scores) ==
    IF scores = {} THEN IsMissingFinding(r, "MISSING_IN_GSTR2B")
    ELSE ClassifiedByBest(r, SetMax(scores))

\* C3: a GSTR-1 invoice whose best unconsumed candidate scores 95 or more is
\* an exact_match without Finding; one whose best candidate scores at least
\* the fuzzy threshold and below 95 is a partial_match with a Finding; one
\* whose best candidate scores below the fuzzy threshold, or that has no
\* candidate, is unmatched with a MISSING_IN_GSTR2B Finding.
C3_ThresholdClassification ==
    \A k \in 1..l1_i : ClassifiedByScores(results[k], UnconsumedScores(k))

BestIs(scores, best) == scores # {} /\ SetMax(scores) = best

\* one run met a best score of exactly 95, one of exactly the fuzzy
\* threshold and one a point below it, and classified all three
C3_Witness ==
    /\ l1_i = 3
    /\ BestIs(UnconsumedScores(1), 9500) /\ results[1].match_type = "exact_match"
    /\ BestIs(UnconsumedScores(2), 8500) /\ results[2].match_type = "partial_match"
    /\ BestIs(UnconsumedScores(3), 8400) /\ results[3].match_type = "unmatched"

\* the results that stand for a GSTR-1 invoice / for a GSTR-2B invoice alone
OfGstr1 == {k \in 1..Len(results) : results[k].gstr1_invoice # None}

OfGstr2bAlone == {k \in 1..Len(results) : results[k].gstr1_invoice = None}

Matches == {k \in 1..Len(results) : results[k].match_type \in {"exact_match", "partial_match"}}

\* the GSTR-2B invoices some GSTR-1 invoice was matched with
ConsumedInvoices ==
    {b \in Range(gstr2b_invoices) : \E k \in Matches : results[k].gstr2b_invoice = Some(b)}

\* C4: match_invoices returns one result per GSTR-1 invoice, plus one
\* unmatched MISSING_IN_GSTR1 result per GSTR-2B invoice that no GSTR-1
\* invoice consumed, and nothing else; their number is |A| + |B| minus the
\* number of exact and partial matches.
C4_ResultCount ==
    l1_pc = "done" =>
        /\ \A a \in 1..Len(gstr1_invoices) :
              Cardinality({k \in OfGstr1 : results[k].gstr1_invoice = Some(gstr1_invoices[a])}) = 1
        /\ Cardinality(OfGstr1) = Len(gstr1_invoices)
        /\ \A b \in Range(gstr2b_invoices) \ ConsumedInvoices :
              Cardinality({k \in OfGstr2bAlone : results[k].gstr2b_invoice = Some(b)}) = 1
        /\ \A k \in OfGstr2bAlone :
              /\ IsMissingFinding(results[k], "MISSING_IN_GSTR1")
              /\ results[k].gstr2b_invoice # None
              /\ results[k].gstr2b_invoice[1] \in Range(gstr2b_invoices) \ ConsumedInvoices
        /\ Len(results) = Len(gstr1_invoices) + Len(gstr2b_invoices) - Cardinality(Matches)

\* a finished run with a match, a GSTR-1 invoice left unmatched and a
\* GSTR-2B invoice nobody consumed
C4_Witness ==
    /\ l1_pc = "done"
    /\ Matches # {}
    /\ \E k \in OfGstr1 : results[k].match_type = "unmatched"
    /\ OfGstr2bAlone # {}

\* match_invoices has returned from one GSTR-1 and one GSTR-2B invoice of
\* the same supplier with the same number and date, the taxable values a
\* fifth of the GSTR-1 value apart
ScenarioA ==
    /\ l1_pc = "done"
    /\ Len(gstr1_invoices) = 1
    /\ Len(gstr2b_invoices) = 1
    /\ gstr1_invoices[1].supplier_gstin = gstr2b_invoices[1].supplier_gstin
    /\ gstr1_invoices[1].invoice_number = gstr2b_invoices[1].invoice_number
    /\ gstr1_invoices[1].invoice_date = gstr2b_invoices[1].invoice_date
    /\ 5 * Abs(gstr1_invoices[1].taxable_value - gstr2b_invoices[1].taxable_value)
           = gstr1_invoices[1].taxable_value

\* the Findings of the results, in order
Level1Findings ==
    SelectSeq([k \in 1..Len(results) |-> results[k].mismatch], LAMBDA m : m # None)

\* exactly one Finding, of the given type, with itc_at_risk (in paise) the
\* absolute difference of the tax totals of the two invoices
OneFindingOfType(type) ==
    /\ Len(Level1Findings) = 1
    /\ Level1Findings[1][1].mismatch_type = type
    /\ Level1Findings[1][1].itc_at_risk
           = 100 * Abs(InvoiceTax(gstr1_invoices[1]) - InvoiceTax(gstr2b_invoices[1]))

\* C11 as stated: in scenario A Level 1 emits exactly one Finding, of type
\* VALUE_MISMATCH, whose itc_at_risk is the absolute difference of the two
\* tax totals.
C11_ScenarioAValueMismatch == ScenarioA => OneFindingOfType("VALUE_MISMATCH")

\* the number of tax fields (cgst, sgst, igst) in which the two invoices differ
TaxFieldsApart == Len(TaxDiffs(gstr1_invoices[1], gstr2b_invoices[1]))

\* C11 as amended: in scenario A Level 1 emits exactly one Finding whose
\* itc_at_risk is the absolute difference of the two tax totals, provided
\* at most two of the three tax fields differ; its type is VALUE_MISMATCH
\* when the tax fields agree within tolerance and TAX_RATE_MISMATCH when one
\* or two of them differ.
C11_ScenarioAByTaxFields ==
    (ScenarioA /\ TaxFieldsApart <= 2) =>
        OneFindingOfType(IF TaxFieldsApart = 0 THEN "VALUE_MISMATCH"
                         ELSE "TAX_RATE_MISMATCH")

\* scenario A has run on invoices with a tax difference and has given a
\* partial match with a TAX_RATE_MISMATCH Finding for the difference
C11_Witness ==
    /\ ScenarioA
    /\ TaxFieldsApart = 2
    /\ results[1].match_type = "partial_match"
    /\ Level1Findings[1][1].mismatch_type = "TAX_RATE_MISMATCH"
    /\ Level1Findings[1][1].itc_at_risk = 2200

\* the sequence of classifications a call returned
Classifications(list) == [k \in 1..Len(list) |-> list[k].match_type]

\* for each GSTR-1 invoice, by uid, its GSTR-2B partner and its score
Partners(list) ==
    {[uid |-> r.gstr1_invoice[1].uid,
      partner |-> IF r.gstr2b_invoice = None THEN None ELSE Some(r.gstr2b_invoice[1].uid),
      match_score |-> r.match_score] : r \in {x \in Range(list) : x.gstr1_invoice # None}}

RerunDone == rr_pc = "done"

\* the second call gave what the first gave, and its store_match_results
\* left the relationships as they were
SameOutcome ==
    /\ Classifications(rr_results[2]) = Classifications(rr_results[1])
    /\ Partners(rr_results[2]) = Partners(rr_results[1])
    /\ rr_edges[2] = rr_edges[1]

DistinctNumbers(list) ==
    \A j, k \in 1..Len(list) : j # k => list[j].invoice_number # list[k].invoice_number

PartnerUid(k) == results[k].gstr2b_invoice[1].uid

\* C22: at every point of the matching loop and in the final result, a
\* GSTR-2B invoice is the matched partner of at most one GSTR-1 invoice; a
\* GSTR-1 invoice is paired only with a GSTR-2B invoice of the same
\* supplier that no earlier result had consumed; and a GSTR-2B invoice that
\* is a matched partner has no MISSING_IN_GSTR1 result.
C22_PartnerAtMostOnce ==
    /\ \A j, k \in Matches : j # k => PartnerUid(j) # PartnerUid(k)
    /\ \A k \in Matches :
          /\ results[k].gstr1_invoice # None
          /\ results[k].gstr2b_invoice[1] \in Range(gstr2b_invoices)
          /\ results[k].gstr2b_invoice[1].supplier_gstin
                 = results[k].gstr1_invoice[1].supplier_gstin
          /\ \A j \in 1..(k - 1) : j \in Matches => PartnerUid(j) # PartnerUid(k)
    /\ matched_2b_uids = {PartnerUid(k) : k \in Matches}
    /\ \A m \in OfGstr2bAlone : \A k \in Matches : PartnerUid(m) # PartnerUid(k)

\* a finished call in which two GSTR-1 invoices each took a partner of
\* their own although the first partner scored at least as well for the
\* second, and a GSTR-2B invoice of another supplier was left as
\* MISSING_IN_GSTR1
C22_Witness ==
    /\ l1_pc = "done"
    /\ {1, 2} \subseteq Matches
    /\ ComputeMatchScore(gstr1_invoices[2], results[1].gstr2b_invoice[1]).score
          >= results[2].match_score
    /\ \E m \in OfGstr2bAlone :
          results[m].gstr2b_invoice[1].supplier_gstin # gstr1_invoices[1].supplier_gstin

\* the place of the GSTR-2B invoice with this uid in the order of the fetch
FetchIndex(uid) == CHOOSE i \in 1..Len(gstr2b_invoices) : gstr2b_invoices[i].uid = uid

\* C24: the GSTR-2B invoice selected for a GSTR-1 invoice has the highest
\* score among the unconsumed candidates of the same supplier, and among
\* the candidates that share the highest score it is the first in the
\* order of the fetch (a later candidate replaces the best so far only with
\* a strictly greater score).  It is stated of each selection as it is made
\* and of all of them in the results returned.
C24_HighestScoreFirstOnTies ==
    \A k \in (IF l1_pc = "done" THEN 1..l1_i
              ELSE IF l1_pc = "match" THEN {l1_i} \ {0} ELSE {}) :
        results[k].gstr2b_invoice # None =>
            /\ results[k].gstr2b_invoice[1] \in Unconsumed(k)
            /\ \A c \in Unconsumed(k) :
                  \E sc \in {ComputeMatchScore(gstr1_invoices[k], c).score} :
                      /\ sc <= results[k].match_score
                      /\ sc = results[k].match_score
                            => FetchIndex(PartnerUid(k)) <= FetchIndex(c.uid)

\* a GSTR-1 invoice with three unconsumed candidates took the second: it
\* scores above the first, and the third scores the same
C24_Witness ==
    /\ l1_i >= 1
    /\ Len(gstr2b_invoices) = 3
    /\ results[1].gstr2b_invoice = Some(gstr2b_invoices[2])
    /\ ComputeMatchScore(gstr1_invoices[1], gstr2b_invoices[1]).score \in
          1..(results[1].match_score - 1)
    /\ ComputeMatchScore(gstr1_invoices[1], gstr2b_invoices[3]).score
          = results[1].match_score

\* the results of partial matches among those of the calls made so far
PartialResults ==
    {r \in UNION {Range(rr_results[c]) : c \in 1..Len(rr_results)} :
        r.match_type = "partial_match"}

TaxComponents == {"cgst", "sgst", "igst"}

\* the fields that differ
Differing(r) == Range(r.field_diffs)

\* C23: the type of the Finding of a partial match follows from the set of
\* fields that differ: TAX_RATE_MISMATCH when the taxable value and at least
\* one tax component differ, VALUE_MISMATCH when the taxable value differs
\* and no tax component does, PERIOD_MISMATCH when the date is the only
\* differing field, and VALUE_MISMATCH in every remaining case.
C23_TypeByDifferingFields ==
    \A r \in PartialResults :
        /\ r.mismatch # None
        /\ ("taxable_value" \in Differing(r) /\ Differing(r) \cap TaxComponents # {})
              => r.mismatch[1].mismatch_type = "TAX_RATE_MISMATCH"
        /\ ("taxable_value" \in Differing(r) /\ Differing(r) \cap TaxComponents = {})
              => r.mismatch[1].mismatch_type = "VALUE_MISMATCH"
        /\ Differing(r) = {"invoice_date"}
              => r.mismatch[1].mismatch_type = "PERIOD_MISMATCH"
        /\ ("taxable_value" \notin Differing(r) /\ Differing(r) # {"invoice_date"})
              => r.mismatch[1].mismatch_type = "VALUE_MISMATCH"

\* a call returned two partial matches of which one differs in the date
\* alone and the other in the date and a tax component
C23_Witness ==
    /\ rr_results # <<>>
    /\ \E r \in PartialResults :
          Differing(r) = {"invoice_date"} /\ r.mismatch[1].mismatch_type = "PERIOD_MISMATCH"
    /\ \E r \in PartialResults :
          /\ Differing(r) = {"invoice_date", "cgst"}
          /\ r.mismatch[1].mismatch_type = "VALUE_MISMATCH"

(***************************************************************************)
(* Level 3 properties.                                                     *)
(***************************************************************************)
\* a directed cycle, whatever member it is written from: its rotations
RotClass(cycle) == {Rotate(cycle, k) : k \in 0..(Len(cycle) - 1)}

\* the directed cycles the two strategies found
FoundClasses == {RotClass(c) : c \in Range(cycles) \cup Range(cypher_cycles)}

L3Merged == l3_pc \in {"analyze", "return", "done"}

L3Analyzed == l3_pc \in {"return", "done"}

\* the list holds exactly one cycle of each class, and no other cycle
OnePerClass(list, classes) ==
    /\ {RotClass(list[k]) : k \in 1..Len(list)} = classes
    /\ Len(list) = Cardinality(classes)

FromSmallest(cycle) == \A i \in 1..Len(cycle) : cycle[1] <= cycle[i]

MismatchCycles == [k \in 1..Len(mismatches) |-> mismatches[k].cycle]

\* C5: every directed cycle found, in whatever rotation and by whichever
\* strategy, has exactly one entry in the merged list, written from its
\* smallest member, and exactly one Finding.
C5_OneFindingPerCycle ==
    /\ L3Merged =>
          /\ OnePerClass(all_cycles, FoundClasses)
          /\ \A k \in 1..Len(all_cycles) : FromSmallest(all_cycles[k])
    /\ L3Analyzed => OnePerClass(MismatchCycles, FoundClasses)

\* the ring 1 -> 2 -> 3 -> 1 was found by the walk in another rotation and
\* by the pattern query from its smallest member, and has one Finding
C5_Witness ==
    /\ l3_pc = "done"
    /\ <<1, 2, 3>> \in Range(cypher_cycles)
    /\ \E c \in Range(cycles) : c # <<1, 2, 3>> /\ c \in RotClass(<<1, 2, 3>>)
    /\ Cardinality({k \in 1..Len(mismatches) : mismatches[k].cycle = <<1, 2, 3>>}) = 1

\* the number of cycles of len nodes that the pattern queries contributed
CypherCount(len) ==
    Cardinality({i \in 1..Len(cypher_cycles) : Len(cypher_cycles[i]) = len})

L3Bounded ==
    /\ l3_examined <= max_cycles
    /\ \A i \in 1..Len(cycles) :
          min_cycle_length <= Len(cycles[i]) /\ Len(cycles[i]) <= max_cycle_length
    /\ CypherCount(3) <= CYPHER_LIMIT
    /\ CypherCount(4) <= CYPHER_LIMIT
    /\ Len(cypher_cycles) = CypherCount(3) + CypherCount(4)
    /\ Len(mismatches) <= 400

\* C6: on every graph the walk examines at most 200 cycles and returns only
\* cycles of min_cycle_length to max_cycle_length members, each pattern
\* query contributes at most 100 cycles, at most 400 Findings are emitted,
\* and detect_circular_trades returns.
C6_BoundedAndTerminates == []L3Bounded /\ <>(l3_pc = "done")

\* a run on a dense graph in which all three caps were hit and a cycle
\* longer than max_cycle_length was examined and dropped
C6_Witness ==
    /\ l3_pc = "done"
    /\ l3_examined = max_cycles
    /\ Len(cycles) < l3_examined
    /\ CypherCount(3) = CYPHER_LIMIT
    /\ CypherCount(4) = CYPHER_LIMIT
    /\ Len(mismatches) > max_cycles

\* detect_circular_trades has returned from the graph that is the ring
\* 1 -> 2 -> 3 -> 1 with edge values 100, 120 and 150 and no participant of
\* compliance below 40
ScenarioC ==
    /\ l3_pc = "done"
    /\ graph.edges = {<<1, 2>>, <<2, 3>>, <<3, 1>>}
    /\ EdgeValues(<<1, 2, 3>>, graph) = <<100, 120, 150>>
    /\ LowCompliance(<<1, 2, 3>>, graph) = 0

\* exactly one Finding, a CIRCULAR_TRADE of inflation ratio 1.5 with three
\* chain hops and the given severity
OneRingFinding(severity) ==
    /\ Len(mismatches) = 1
    /\ mismatches[1].mismatch_type = "CIRCULAR_TRADE"
    /\ 2 * mismatches[1].inflation_ratio[1] = 3 * mismatches[1].inflation_ratio[2]
    /\ mismatches[1].hops = 3
    /\ mismatches[1].severity = severity

\* C13 as stated: in scenario C Level 3 computes the inflation ratio 1.5 and
\* emits exactly one CIRCULAR_TRADE Finding, with severity HIGH and three
\* chain hops.
C13_ScenarioCHigh == ScenarioC => OneRingFinding("HIGH")

\* C13 as amended: in scenario C Level 3 computes the inflation ratio 1.5
\* and emits exactly one CIRCULAR_TRADE Finding with three chain hops; its
\* severity is MEDIUM, HIGH being given to ratios above 1.5 only.
C13_ScenarioCMedium == ScenarioC => OneRingFinding("MEDIUM")

\* scenario C has run: the ring was found by the walk and by the 3-node
\* pattern query, and has its one Finding
C13_Witness ==
    /\ ScenarioC
    /\ Len(cycles) = 1
    /\ cypher_cycles = << <<1, 2, 3>> >>
    /\ mismatches[1].cycle = <<1, 2, 3>>
    /\ mismatches[1].severity = "MEDIUM"

\* the values of the edges of the cycle of Finding m
ValuesOf(m) == Range(EdgeValues(m.cycle, graph))

\* num/den is the largest of the values over the smallest, or over 1 if
\* the smallest is below 1
IsMaxOverMin(ratio, values) ==
    ratio[1] * Max(SetMin(values), 1) = ratio[2] * MaxOf(values)

\* C25 as stated: the inflation ratio of every cycle analysed is the largest
\* edge value over max(smallest edge value, 1), the smallest taken over all
\* edges of the cycle, those of value 0 or without value included.
C25_RatioOverAllEdges ==
    \A k \in 1..Len(mismatches) : IsMaxOverMin(mismatches[k].inflation_ratio,
                                                ValuesOf(mismatches[k]))

\* C25: the inflation ratio of every cycle analysed is the largest edge
\* value over max(smallest edge value, 1), the smallest taken over the edges
\* of the cycle whose value is above 0; it is 1 when no edge of the cycle
\* has a value above 0.
C25_RatioOverValuedEdges ==
    \A k \in 1..Len(mismatches) :
        IF \E v \in ValuesOf(mismatches[k]) : v > 0
        THEN IsMaxOverMin(mismatches[k].inflation_ratio,
                          {v \in ValuesOf(mismatches[k]) : v > 0})
        ELSE mismatches[k].inflation_ratio[1] = mismatches[k].inflation_ratio[2]

\* the ring whose edges are worth 0, 100 and 200 was analysed: ratio 2
C25_Witness ==
    /\ l3_pc = "done"
    /\ Len(mismatches) = 1
    /\ EdgeValues(mismatches[1].cycle, graph) = <<0, 100, 200>>
    /\ mismatches[1].inflation_ratio[1] = 2 * mismatches[1].inflation_ratio[2]
    /\ mismatches[1].severity = "HIGH"

(***************************************************************************)
(* Scorer properties.                                                      *)
(***************************************************************************)
\* the Findings that compute_composite_risk has scored
ScScored == {sc_mismatches[k] : k \in 1..sc_i} \cup Range(sc_sorted)

\* the vendor risk scores the store and the fallbacks can give for a gstin
VendorRisks(gstin) ==
    {5000}
    \cup (IF gstin # None /\ gstin[1] \in DOMAIN gstin_nodes
          THEN (IF gstin_nodes[gstin[1]].risk_score # None
                THEN {gstin_nodes[gstin[1]].risk_score[1]}
                ELSE IF gstin_nodes[gstin[1]].status = "cancelled" THEN {9000}
                ELSE IF gstin_nodes[gstin[1]].status = "suspended" THEN {7000}
                ELSE {})
          ELSE {})

\* 1000 times the weighted sum, in hundredths of a point
WeightedSum(c) ==
    40000 * c.financial_impact_score + 3 * c.probability_score + 300 * c.vendor_risk_score

\* C7: every scored Finding has composite_risk_score in [0, 100]; the score
\* is 0.4 x financial + 0.3 x probability + 0.3 x vendor of its
\* CompositeRiskScore, to the two decimals it is rounded to, with the vendor
\* risk coming from the store or the fallbacks.
C7_CompositeInRange ==
    \A mm \in ScScored :
        /\ mm.composite_risk_score >= 0
        /\ mm.composite_risk_score <= 10000
        /\ mm.composite # None
        /\ mm.composite[1].vendor_risk_score \in VendorRisks(mm.supplier_gstin)
        /\ 2 * Abs(1000 * mm.composite_risk_score - WeightedSum(mm.composite[1])) <= 1000

\* a batch was scored and returned with a Finding at the top of the range
\* (all three scores at their largest) and one scored from a fallback
C7_Witness ==
    /\ sc_pc = "done"
    /\ \E mm \in Range(sc_sorted) :
          /\ mm.composite_risk_score = 9850
          /\ mm.composite[1].financial_impact_score = 100
    /\ \E mm \in Range(sc_sorted) :
          /\ mm.supplier_gstin = Some(3)
          /\ mm.composite[1].vendor_risk_score = 9000

\* sorted is list rearranged by p, never rising in score, and where two
\* neighbours have the same score the one that came first in list is first
StableDescending(list, sorted, p) ==
    /\ \A k \in 1..Len(sorted) : sorted[k] = list[p[k]]
    /\ \A k \in 1..(Len(sorted) - 1) :
          \/ sorted[k].composite_risk_score > sorted[k + 1].composite_risk_score
          \/ /\ sorted[k].composite_risk_score = sorted[k + 1].composite_risk_score
             /\ p[k] < p[k + 1]

\* C17: batch_compute_risk returns a permutation of its input Findings (none
\* added, dropped or duplicated), each carrying the composite score computed
\* for it, in non-increasing order of composite_risk_score, and Findings of
\* equal score keep the order they had in the input.
C17_SortedStablePermutation ==
    sc_pc = "done" =>
        /\ Len(sc_sorted) = Len(sc_mismatches)
        /\ \A k \in 1..Len(sc_mismatches) :
              /\ sc_mismatches[k].composite # None
              /\ sc_mismatches[k].composite_risk_score
                     = Composite(sc_mismatches[k].composite[1])
        /\ \E p \in Permutations(1..Len(sc_mismatches)) :
              StableDescending(sc_mismatches, sc_sorted, p)

\* a batch of two different Findings that were given the same score was
\* returned in the order of the input
C17_Witness ==
    /\ sc_pc = "done"
    /\ Len(sc_mismatches) = 2
    /\ sc_mismatches[1] # sc_mismatches[2]
    /\ sc_mismatches[1].composite_risk_score = sc_mismatches[2].composite_risk_score
    /\ sc_sorted = sc_mismatches

\* C27: the probability score of a scored Finding is the value of its type
\* in the table multiplied by confidence / 100, for every confidence from 0
\* to 100; at confidence 0 it is 0.  (The score is in ten-thousandths of a
\* point, the confidence in hundredths of a percent.)
C27_ProbabilityScaledByConfidence ==
    \A mm \in ScScored :
        /\ mm.composite # None
        /\ mm.composite[1].probability_score = PROBABILITY_MAP[mm.mismatch_type] * mm.confidence
        /\ mm.confidence = 0 => mm.composite[1].probability_score = 0

\* the node of the issuing entity was read: the Finding names an issuer,
\* the lookup did not fail and the store knows the issuer
IssuerRead(k) ==
    /\ sc_mismatches[k].supplier_gstin # None
    /\ ~sc_failed[k]
    /\ sc_mismatches[k].supplier_gstin[1] \in DOMAIN gstin_nodes

Issuer(k) == gstin_nodes[sc_mismatches[k].supplier_gstin[1]]

VendorRiskOf(k) == sc_mismatches[k].composite[1].vendor_risk_score

\* C28: the vendor risk of a scored Finding is the risk score stored for
\* the issuing entity whenever one is stored, a stored 0 included; otherwise
\* 90 for a cancelled entity, 70 for a suspended one and 50 in every other
\* case: no issuing entity, an entity the store does not know, a lookup
\* that fails (scoring goes on, the batch is returned).
C28_VendorRiskStoredOrFallback ==
    /\ \A k \in 1..sc_i :
          IF ~IssuerRead(k) THEN VendorRiskOf(k) = 5000
          ELSE IF Issuer(k).risk_score # None THEN VendorRiskOf(k) = Issuer(k).risk_score[1]
          ELSE IF Issuer(k).status = "cancelled" THEN VendorRiskOf(k) = 9000
          ELSE IF Issuer(k).status = "suspended" THEN VendorRiskOf(k) = 7000
          ELSE VendorRiskOf(k) = 5000
    /\ sc_pc = "done" => Len(sc_sorted) = Len(sc_mismatches) /\ sc_i = Len(sc_mismatches)

\* a batch was returned in which the lookup failed for a Finding whose
\* issuer has a stored score, and another Finding took the stored score 0
C28_Witness ==
    /\ sc_pc = "done"
    /\ \E k \in 1..sc_i :
          /\ sc_failed[k]
          /\ sc_mismatches[k].supplier_gstin = Some(1)
          /\ VendorRiskOf(k) = 5000
    /\ \E k \in 1..sc_i :
          /\ IssuerRead(k)
          /\ Issuer(k).risk_score = Some(0)
          /\ VendorRiskOf(k) = 0

(***************************************************************************)
(* Level 4 properties                                                      *)
(***************************************************************************)
\* the nodes whose composite exceeds 100 points before the clamp
AboveHundred(G, m) == {g \in G.nodes : NodeSum(G, m, g) > 10000 * NodeDen(G, m, g)}

\* the risk_score rows written back, read from the store
WrittenBatch(nodes, scores) == [g \in DOMAIN scores |-> nodes[g].risk_score]

\* a stored risk_score from 0 to 100 points
StoredInRange(risk) == risk # None /\ risk[1] \in 0..10000

\* C8: every risk_score that Level 4 computes, returns in result["scores"]
\* and writes back to the GSTIN nodes lies between 0 and 100 points (0 and
\* 10000 hundredths), whatever the base risk, the mismatch ratio, the
\* neighbours and the centrality values are.
C8_RiskScoreInRange ==
    /\ \A g \in DOMAIN risk_scores : risk_scores[g] \in 0..10000
    /\ l4_result # None =>
        \A g \in DOMAIN l4_result[1] : l4_result[1][g] \in 0..10000
    /\ l4_pc \in {"return", "done"} =>
        \A risk \in Range(WrittenBatch(gstin_nodes, risk_scores)) : StoredInRange(risk)

\* a run has returned and written 100 for a node whose sum was above 100
C8_Witness ==
    /\ l4_pc = "done"
    /\ l4_metrics # None
    /\ \E g \in AboveHundred(l4_G, l4_metrics) :
        /\ l4_result[1][g] = 10000
        /\ gstin_nodes[g].risk_score = Some(10000)

\* the GSTIN nodes of status "cancelled" without / with a TRANSACTS_WITH
\* relationship
HasRelationship(g) == \E e \in transacts_with : g = e[1] \/ g = e[2]

IsolatedCancelled ==
    {g \in DOMAIN gstin_nodes : gstin_nodes[g].status = "cancelled" /\ ~HasRelationship(g)}

ConnectedCancelled ==
    {g \in DOMAIN gstin_nodes : gstin_nodes[g].status = "cancelled" /\ HasRelationship(g)}

C26_BaseRiskFromRating ==
    \A g \in l4_G.nodes :
        IF gstin_nodes[g].status = "cancelled" THEN l4_G.base_risk[g] = 90
        ELSE IF gstin_nodes[g].status = "suspended" THEN l4_G.base_risk[g] = 70
        ELSE (/\ gstin_nodes[g].compliance # None
              /\ gstin_nodes[g].compliance[1] \in 0..100)
                => l4_G.base_risk[g] = 100 - gstin_nodes[g].compliance[1]

(***************************************************************************)
(* Orchestrator properties                                                 *)
(***************************************************************************)
\* the statements of run_full_reconciliation in program order
RunOrder ==
    <<"level1", "store_match_results", "level2", "level3", "level4", "score", "summary">>

IsPrefix(q, r) == Len(q) <= Len(r) /\ \A k \in 1..Len(q) : q[k] = r[k]

StepAfter(log) == IF Len(log) < Len(RunOrder) THEN RunOrder[Len(log) + 1] ELSE "done"

Completed(step) == step \in Range(run_log)

\* the Mismatches that carry a score of the Scorer
ScoredMismatches == {m \in Range(all_mismatches) : m.composite # None}

\* the scores Level 4 has returned in this run are the ones on the nodes
WrittenBack(scores, nodes) ==
    \A g \in DOMAIN scores : nodes[g].risk_score = Some(scores[g])

\* the vendor risk in m's score is the one Level 4 returned in this run for
\* m's supplier, or the 50.0 of a lookup that raised
UsesRiskOfRun(m, scores) ==
    (m.supplier_gstin # None /\ m.supplier_gstin[1] \in DOMAIN scores)
        => m.composite[1].vendor_risk_score \in {scores[m.supplier_gstin[1]], 5000}

Unscored(list) ==
    [k \in 1..Len(list) |-> [list[k] EXCEPT !.composite_risk_score = 0, !.composite = None]]

Occurrences(list, x) == Cardinality({k \in 1..Len(list) : list[k] = x})

SameBag(q, r) ==
    /\ Len(q) = Len(r)
    /\ \A x \in Range(q) \cup Range(r) : Occurrences(q, x) = Occurrences(r, x)

\* C9: the steps of a run complete in the order Level 1, persistence of the
\* match relationships, Level 2, Level 3, Level 4, scoring, summary; while a
\* Mismatch carries a score, Level 4 has returned and what it returned is
\* on the GSTIN nodes; the Mismatches scored are those of Levels 1 to 3
\* taken together; and a vendor risk the Scorer took from the node of a
\* supplier that Level 4 scored is the one Level 4 wrote in this run.
C9_StepOrder ==
    /\ IsPrefix(run_log, RunOrder)
    /\ run_pc \in {"call", "failed", StepAfter(run_log)}
    /\ ScoredMismatches # {} =>
        /\ Completed("level4")
        /\ WrittenBack(risk_result[1], gstin_nodes)
        /\ \A m \in ScoredMismatches : UsesRiskOfRun(m, risk_result[1])
    /\ Completed("score") =>
        /\ ScoredMismatches = Range(all_mismatches)
        /\ SameBag(Unscored(all_mismatches),
                   l1_mismatches \o l2_mismatches \o l3_mismatches)

\* a run has returned its summary; each level has contributed a Mismatch,
\* and one of them was scored with the risk Level 4 wrote in the run
C9_Witness ==
    /\ run_pc = "done"
    /\ run_log = RunOrder
    /\ l1_mismatches # <<>> /\ l2_mismatches # <<>> /\ l3_mismatches # <<>>
    /\ \E m \in ScoredMismatches :
        /\ m.supplier_gstin # None
        /\ m.supplier_gstin[1] \in DOMAIN risk_result[1]
        /\ m.composite[1].vendor_risk_score = risk_result[1][m.supplier_gstin[1]]
        /\ m.composite[1].vendor_risk_score \notin {5000, 4200}

\* a failed run has no summary, failed with the error of the step that
\* followed the completed ones, and the store still holds what the
\* completed steps persisted
FailedKeeps ==
    run_pc = "failed" =>
        /\ run_summary = None
        /\ run_error = Some(StepAfter(run_log))
        /\ Completed("store_match_results") => MatchEdges(l1_results) \subseteq matched_with
        /\ Completed("level4") => WrittenBack(risk_result[1], gstin_nodes)

\* C10: when a step raises, the run fails with that error and returns no
\* summary, the match relationships and the risk scores persisted by the
\* steps completed before remain in the store, and no step follows.
C10_FailStop == []FailedKeeps /\ [][run_pc # "failed"]_vars

\* a run has failed after Level 4: the match relationships and the risk
\* scores of the run are in the store
C10_Witness ==
    /\ run_pc = "failed"
    /\ run_error = Some("summary")
    /\ MatchEdges(l1_results) # {}
    /\ MatchEdges(l1_results) \subseteq matched_with
    /\ DOMAIN risk_result[1] # {}
    /\ WrittenBack(risk_result[1], gstin_nodes)

\* the steps of a run other than Level 4
StepsBesideLevel4 ==
    {"level1", "store_match_results", "level2", "level3", "score", "summary", "failed",
     "done"}

\* what a step of a run may do to the GSTIN nodes: nothing unless it is
\* Level 4, which leaves status and compliance rating of every node and
\* touches the risk_score of none but the nodes of its graph, those with a
\* TRANSACTS_WITH relationship
EntitiesKept ==
    /\ run_pc \in StepsBesideLevel4 => gstin_nodes' = gstin_nodes
    /\ run_pc = "level4" =>
        /\ DOMAIN gstin_nodes' = DOMAIN gstin_nodes
        /\ \A g \in DOMAIN gstin_nodes :
              /\ gstin_nodes'[g].status = gstin_nodes[g].status
              /\ gstin_nodes'[g].compliance = gstin_nodes[g].compliance
              /\ ~HasRelationship(g) => gstin_nodes'[g] = gstin_nodes[g]

\* C18: Level 1 with store_match_results, Level 2, Level 3 and the Scorer
\* leave the attributes of the entities in the store as they are; the only
\* step of a run that writes to entities is the write-back of Level 4, and
\* it sets the risk score (with the centrality metrics), never status or
\* compliance rating, of entities that are in the graph.
C18_OnlyLevel4WritesEntities == [][EntitiesKept]_vars

\* a run has returned after every step: Level 1 left a relationship, the
\* levels found Mismatches, and Level 4 wrote a new risk_score to a node of
\* its graph while a node without relationship has none
C18_Witness ==
    /\ run_pc = "done"
    /\ run_log = RunOrder
    /\ MatchEdges(l1_results) # {}
    /\ all_mismatches # <<>>
    /\ \E g \in DOMAIN gstin_nodes :
          /\ HasRelationship(g)
          /\ gstin_nodes[g].risk_score = Some(risk_result[1][g])
          /\ gstin_nodes[g].risk_score # Some(4200)
    /\ \E g \in DOMAIN gstin_nodes :
          /\ ~HasRelationship(g)
          /\ gstin_nodes[g].risk_score = None

\* the Mismatches the three levels returned, before the Scorer sorted them
FindingsOfLevels == l1_mismatches \o l2_mismatches \o l3_mismatches

AtRiskOfLevels ==
    SumSeq([k \in 1..Len(FindingsOfLevels) |-> FindingsOfLevels[k].itc_at_risk])

CountsSum(counts) == SumOver(counts, DOMAIN counts)

\* C29: in every summary run_full_reconciliation returns, matched +
\* partial_matched + unmatched = total_invoices (the number of Level 1
\* results); the counts by type sum to the number of Mismatches in the
\* summary, and so do the counts by severity; itc_at_risk is the sum of
\* itc_at_risk over all Mismatches of Levels 1 to 3; net_exposure =
\* itc_at_risk; itc_verified = max(0, total_itc_claimed - itc_at_risk).
C29_SummaryInvariants ==
    run_summary # None =>
        /\ run_summary[1].matched + run_summary[1].partial_matched
             + run_summary[1].unmatched = run_summary[1].total_invoices
        /\ run_summary[1].total_invoices = Len(l1_results)
        /\ Len(run_summary[1].mismatches) = Len(FindingsOfLevels)
        /\ CountsSum(run_summary[1].mismatches_by_type) = Len(run_summary[1].mismatches)
        /\ CountsSum(run_summary[1].mismatches_by_severity) = Len(run_summary[1].mismatches)
        /\ run_summary[1].itc_at_risk = AtRiskOfLevels
        /\ run_summary[1].net_exposure = run_summary[1].itc_at_risk
        /\ run_summary[1].itc_verified =
              (IF run_summary[1].total_itc_claimed >= run_summary[1].itc_at_risk
               THEN run_summary[1].total_itc_claimed - run_summary[1].itc_at_risk
               ELSE 0)

\* a summary was returned with Mismatches of all three levels, of more
\* than one type and severity, with a partial match as Level 1 result,
\* and with less credit claimed than is at risk
C29_Witness ==
    /\ run_summary # None
    /\ l1_mismatches # <<>> /\ l2_mismatches # <<>> /\ l3_mismatches # <<>>
    /\ Cardinality(DOMAIN run_summary[1].mismatches_by_type) >= 2
    /\ Cardinality(DOMAIN run_summary[1].mismatches_by_severity) >= 2
    /\ run_summary[1].partial_matched >= 1
    /\ run_summary[1].itc_at_risk > run_summary[1].total_itc_claimed
    /\ run_summary[1].itc_verified = 0
    /\ \E k \in 1..(Len(FindingsOfLevels) - 1) : FindingsOfLevels[k].itc_at_risk > 0

(***************************************************************************)
(* Query interface properties.                                             *)
(***************************************************************************)
\* no attempt follows one that succeeded, and there are at most 3
AttemptsBounded(a) ==
    /\ Len(a) <= 3
    /\ \A k \in 1..(Len(a) - 1) : a[k] = "error"

Succeeded(a) == a # <<>> /\ a[Len(a)] = "ok"

AllFailed(a) == Len(a) = 3 /\ \A k \in 1..3 : a[k] = "error"

\* how a call that has ended did so: with its result after an attempt that
\* succeeded, or, every attempt having failed, with the error taken by a
\* handler of the caller if it has one (caught) and leaving the run if not
EndsAs(e, caught) ==
    /\ AttemptsBounded(e.attempts)
    /\ \/ Succeeded(e.attempts) /\ e.end = "result"
       \/ AllFailed(e.attempts) /\ ~caught /\ e.end = "abort"
       \/ AllFailed(e.attempts) /\ caught /\ e.end = "fallback"

\* the call in progress: at most 3 attempts, returned with a result only
\* after an attempt that succeeded, raised only after three that failed,
\* and a call that left the run is the last one of the run
CallInProgress ==
    /\ AttemptsBounded(q_attempts)
    /\ q_pc = "returned" => Succeeded(q_attempts) /\ q_result # None
    /\ q_pc \in {"attempt", "sleep"} => ~Succeeded(q_attempts) /\ Len(q_attempts) < 3
    /\ q_pc = "raised" => AllFailed(q_attempts) /\ q_result = None
    /\ \A k \in 1..Len(q_log) :
          q_log[k].end = "abort" <=> (k = Len(q_log) /\ q_pc = "aborted")

\* C19 as stated: a call of execute_query or execute_write is attempted at
\* most 3 times, an attempt that succeeds ends the call with its result,
\* and when every attempt fails the error reaches the caller and aborts the
\* level and the run, whoever the caller is.
C19_RetryThenAbort ==
    /\ CallInProgress
    /\ \A e \in Range(q_log) : EndsAs(e, FALSE)

\* C19: a call of execute_query or execute_write is attempted at most 3
\* times, an attempt that succeeds ends the call with its result, and when
\* every attempt fails the error reaches the caller: it aborts the level
\* and the run, except in the vendor-risk lookup of the Scorer, which takes
\* the fallback of 50.0 and lets the run go on.
C19_RetryThenAbortOrFallback ==
    /\ CallInProgress
    /\ \A e \in Range(q_log) : EndsAs(e, e.call.step = "score")

\* the lookup of the Scorer failed three times and the run went on to the
\* summary, whose query succeeded at the third attempt
C19_Witness ==
    /\ Len(q_log) = 2
    /\ q_log[1].call.step = "score"
    /\ q_log[1].attempts = <<"error", "error", "error">>
    /\ q_log[1].end = "fallback"
    /\ q_log[2].call.step = "summary"
    /\ q_log[2].attempts = <<"error", "error", "ok">>
    /\ q_log[2].end = "result"
    /\ q_pc = "idle"

(***************************************************************************)
(* Invoice number properties.                                              *)
(***************************************************************************)
IsLetterOrDigit(ch) == ch \in Range(UpperLetters) \cup Range(Digits)

\* the letters and digits of a number, in upper case
LettersAndDigits(s) == SelectSeq(Upper(s), IsLetterOrDigit)

\* C20: normalize_invoice_number maps invoice numbers that differ only in
\* letter case, surrounding whitespace and separator characters ("/", "-",
\* space) to the same string, which keeps the alphabetic prefix: both
\* "INV/2025/001" and "inv-2025-001" become "INV2025001", and "  INV 001  "
\* becomes "INV001".
C20_SeparatorsCaseSpaceIgnored ==
    n_pc = "done" =>
        /\ n_normalized[1] = n_normalized[2]
        /\ n_normalized[1] = LettersAndDigits(n_numbers[1])

(***************************************************************************)
(* Level 2 properties.                                                     *)
(***************************************************************************)
\* hop_number of the first hop whose status is not "valid" (0 if all are valid)
FirstNonValidHop(hops) ==
    IF \A k \in 1..Len(hops) : hops[k] = "valid" THEN 0
    ELSE CHOOSE k \in 1..Len(hops) :
            /\ hops[k] # "valid"
            /\ \A j \in 1..(k - 1) : hops[j] = "valid"

L2Validated == l2_pc = "append"

\* C1: whenever a validated chain has break_point set, break_point is the
\* hop_number of the first hop (1..4) whose status is not "valid".
C1_BreakPointIsFirstNonValidHop ==
    (L2Validated /\ l2_result[1].break_point # 0)
        => l2_result[1].break_point = FirstNonValidHop(l2_result[1].hops)

C12_CancelledIsCriticalPhantom ==
    (L2Validated /\ l2_chain[1].supplier_status = "cancelled")
        => /\ l2_result[1].emitted
           /\ l2_result[1].mismatch_type = "PHANTOM_INVOICE"
           /\ l2_result[1].severity = "CRITICAL"

\* the type that the priority order of C15 gives to the Finding of chain c,
\* from the checks that failed on it
TypeByPriority(c) ==
    IF c.supplier_status \in {"suspended", "cancelled"} THEN "PHANTOM_INVOICE"
    ELSE IF c.gstr3b_return /\ c.itc_claim # None
            /\ c.itc_claim[1].claimed_amount * 100 > c.itc_claim[1].eligible_amount * 105
         THEN "ITC_OVERCLAIM"
    ELSE IF c.gstr1_invoice = None \/ ~c.gstr1_return THEN "MISSING_IN_GSTR1"
    ELSE IF c.irn_status \in {"invalid", "cancelled"} THEN "IRN_INVALID"
    ELSE "VALUE_MISMATCH"

\* C15: the type of a Level 2 Finding follows the priority order: issuer
\* suspended or cancelled -> PHANTOM_INVOICE; else overclaim ->
\* ITC_OVERCLAIM; else no matching GSTR-1 invoice or no GSTR-1 return
\* filing -> MISSING_IN_GSTR1; else invalid or cancelled IRN -> IRN_INVALID;
\* otherwise VALUE_MISMATCH.
C15_TypeFollowsPriority ==
    (L2Validated /\ l2_result[1].emitted)
        => l2_result[1].mismatch_type = TypeByPriority(l2_chain[1])

\* the checks of a chain that failed: the hops that are not "valid", the
\* issuer with a suspended or cancelled registration, the invoice reference
\* that is invalid or cancelled
FailedChecks(c, hops) ==
    Cardinality({k \in 1..Len(hops) : hops[k] # "valid"})
    + (IF c.supplier_status \in {"suspended", "cancelled"} THEN 1 ELSE 0)
    + (IF c.irn_status \in {"invalid", "cancelled"} THEN 1 ELSE 0)

\* C21: every failed check of a chain adds its own issue to the issues that
\* make the root-cause classification of the Finding: each hop that is
\* "broken" or "warning", a suspended or cancelled issuer, an invalid or
\* cancelled invoice reference, also when an earlier hop has set break_point
\* (so the hop 3 issue is there whenever hop 3 is broken).
C21_EveryFailedCheckHasIssue ==
    L2Validated =>
        /\ Len(l2_result[1].issues) = FailedChecks(l2_chain[1], l2_result[1].hops)
        /\ l2_result[1].hops[3] = "broken" =>
              \E k \in 1..Len(l2_result[1].issues) :
                  l2_result[1].issues[k]
                      = <<"Supplier", "has", "not", "filed", "GSTR-1", "for", "this", "period">>

\* the GSTR-2B invoices of the store that entity 1 received, of any period
ReceivedByEntity == {inv \in Range(p_store) : inv.recipient_gstin = 1}

\* the two calls are made for different return periods
TwoPeriods == p_pc = "done" /\ p_periods[1] # p_periods[2]

=============================================================================
